---- MODULE Spec2Model ----
(***************************************************************************)
(* TrueNAS Fleet Monitor backend (src/backend.py): the metric log, the     *)
(* alert log, the systems table and the handlers that write and read them. *)
(*                                                                         *)
(* Strings that the code takes apart (metric names) are sequences of       *)
(* one-character strings; timestamps are seconds on the database clock.    *)
(***************************************************************************)
EXTENDS Integers, Sequences, FiniteSets, TLC

VARIABLES
    now,        \* the database clock (CURRENT_TIMESTAMP / datetime('now')), seconds
    systems,    \* table systems: id -> row
    metrics,    \* table metrics: sequence of rows in insertion order
    alerts,     \* table alerts: sequence of rows in insertion order
    users,      \* table users: sequence of rows in insertion order
    resp,       \* the response of the request handled at the current instant
    ingest,     \* the webhook requests in flight: worker -> position and transaction
    writer,     \* the connection that holds the database write lock, or NoWriter
    summary,    \* the GET /disks/summary request in flight: position and values read
    requests    \* the user-management requests in flight: worker -> position and caller

vars == <<now, systems, metrics, alerts, users, resp, ingest, writer, summary, requests>>
tables == <<systems, metrics, alerts, users>>
handlers == <<summary, requests>>
inflight == <<ingest, writer, handlers>>

(***************************************************************************)
(* Bounds of the model.                                                    *)
(***************************************************************************)
MaxMetrics == 2
MaxAlerts == 2
MaxBatch == 1
MaxCapacityRows == 3

(***************************************************************************)
(* Program constants.                                                      *)
(***************************************************************************)
SecondsPerHour == 3600
PoolWindowHours == 24

NoResponse == [op |-> "none"]
EmptyMap == [a \in {} |-> a]
NullText == <<>>

(***************************************************************************)
(* Characters in ASCII order, for the BINARY collation of ORDER BY          *)
(* metric_name.                                                            *)
(***************************************************************************)
Alphabet ==
    <<"-", "0", "1", "2", "_", "a", "b", "c", "d", "e", "h", "i", "k", "l", "m",
      "n", "o", "p", "r", "s", "t", "u", "v", "x">>

Code(c) == CHOOSE i \in 1..Len(Alphabet) : Alphabet[i] = c

RECURSIVE NameLess(_, _)
NameLess(a, b) ==
    IF b = <<>> THEN FALSE
    ELSE IF a = <<>> THEN TRUE
    ELSE IF Head(a) # Head(b) THEN Code(Head(a)) < Code(Head(b))
    ELSE NameLess(Tail(a), Tail(b))

Underscore == "_"
WValue == <<"v", "a", "l", "u", "e">>
WX == <<"x">>
WTemp == <<"t", "e", "m", "p">>
Join(a, b) == a \o <<Underscore>> \o b

(***************************************************************************)
(* str.rsplit('_', 1) and str.split('_', 1).                               *)
(***************************************************************************)
UnderscoreAt(name) == {i \in 1..Len(name) : name[i] = Underscore}

MaxOf(S) == CHOOSE x \in S : \A y \in S : y <= x
MinOf(S) == CHOOSE x \in S : \A y \in S : x <= y

SplitAt(name, i) == <<SubSeq(name, 1, i - 1), SubSeq(name, i + 1, Len(name))>>

\* mutant: rsplit cuts at the first underscore
RSplit1AtFirst(name) ==
    IF UnderscoreAt(name) = {} THEN <<name>>
    ELSE SplitAt(name, MinOf(UnderscoreAt(name)))

RSplit1(name) ==
    IF UnderscoreAt(name) = {} THEN <<name>>
    ELSE SplitAt(name, MaxOf(UnderscoreAt(name)))

\* mutant: split cuts at the last underscore
Split1AtLast(name) ==
    IF UnderscoreAt(name) = {} THEN <<name>>
    ELSE SplitAt(name, MaxOf(UnderscoreAt(name)))

Split1(name) ==
    IF UnderscoreAt(name) = {} THEN <<name>>
    ELSE SplitAt(name, MinOf(UnderscoreAt(name)))

\* mutant: a name without underscore is its own attribute
DecodeLastNoSentinel(name) ==
    LET parts == RSplit1(name)
    IN  IF Len(parts) = 2 THEN <<parts[1], parts[2]>> ELSE <<name, name>>

\* disk and replication views: <<entity id, attribute>>
DecodeLast(name) ==
    LET parts == RSplit1(name)
    IN  IF Len(parts) = 2 THEN <<parts[1], parts[2]>> ELSE <<name, WValue>>

\* pool views
DecodeFirst(name) ==
    LET parts == Split1(name)
    IN  IF Len(parts) >= 1
        THEN <<parts[1], IF Len(parts) > 1 THEN parts[2] ELSE WValue>>
        ELSE <<name, WValue>>

Decode(mode, name) == IF mode = "first" THEN DecodeFirst(name) ELSE DecodeLast(name)

(***************************************************************************)
(* json.dumps(metadata) if metadata else None, and json.loads.             *)
(***************************************************************************)
DumpsMetadata(md) == IF md = <<>> THEN NullText ELSE <<"json", md>>
LoadsMetadata(text) == IF text = NullText THEN <<>> ELSE text[2]

(***************************************************************************)
(* AUTOINCREMENT: one more than the largest id the table ever held.        *)
(***************************************************************************)
NextId(table) ==
    IF table = <<>> THEN 1
    ELSE MaxOf({table[i].id : i \in 1..Len(table)}) + 1

\* mutant: the log keeps one row per (system, kind, name), the newest
RECURSIVE InsertMetricsKeepLatest(_, _, _)
InsertMetricsKeepLatest(table, batch, t) ==
    IF batch = <<>> THEN table
    ELSE LET m == Head(batch)
             kept == SelectSeq(table, LAMBDA r :
                        ~(/\ r.system_id = m.system_id
                          /\ r.metric_type = m.metric_type
                          /\ r.metric_name = m.metric_name))
             row == [id |-> NextId(table),
                     system_id |-> m.system_id,
                     timestamp |-> t,
                     metric_type |-> m.metric_type,
                     metric_name |-> m.metric_name,
                     value |-> m.value,
                     unit |-> m.unit,
                     metadata |-> DumpsMetadata(m.metadata)]
         IN  InsertMetricsKeepLatest(Append(kept, row), Tail(batch), t)

RECURSIVE InsertMetrics(_, _, _)
InsertMetrics(table, batch, t) ==
    IF batch = <<>> THEN table
    ELSE LET m == Head(batch)
             row == [id |-> NextId(table),
                     system_id |-> m.system_id,
                     timestamp |-> t,
                     metric_type |-> m.metric_type,
                     metric_name |-> m.metric_name,
                     value |-> m.value,
                     unit |-> m.unit,
                     metadata |-> DumpsMetadata(m.metadata)]
         IN  InsertMetrics(Append(table, row), Tail(batch), t)

NoTicket == <<>>

RECURSIVE InsertAlerts(_, _, _)
InsertAlerts(table, batch, t) ==
    IF batch = <<>> THEN table
    ELSE LET a == Head(batch)
             row == [id |-> NextId(table),
                     system_id |-> a.system_id,
                     timestamp |-> t,
                     severity |-> a.severity,
                     message |-> a.message,
                     acknowledged |-> FALSE,
                     ticket_id |-> NoTicket]
         IN  InsertAlerts(Append(table, row), Tail(batch), t)

UpsertSystem(table, info, t) ==
    (info.id :> [id |-> info.id,
                 name |-> info.name,
                 hostname |-> info.hostname,
                 version |-> info.version,
                 last_seen |-> t,
                 client_name |-> info.client_name]) @@ table

(***************************************************************************)
(* Sequences over a set, up to a length.                                   *)
(***************************************************************************)
SeqsUpTo(S, n) == UNION {[1..k -> S] : k \in 0..n}

(***************************************************************************)
(* POST /webhook/metrics                                                   *)
(***************************************************************************)
ReceiveWithin(payload, rows) ==
    /\ Len(metrics) + Len(payload.metrics) <= rows
    /\ Len(alerts) + Len(payload.alerts) <= MaxAlerts
    /\ systems' = UpsertSystem(systems, payload.system, now)
    /\ metrics' = InsertMetrics(metrics, payload.metrics, now)
    /\ alerts' = InsertAlerts(alerts, payload.alerts, now)
    /\ resp' = [op |-> "receive_metrics", status |-> "ok",
                metrics_received |-> Len(payload.metrics),
                alerts_received |-> Len(payload.alerts)]
    /\ UNCHANGED <<now, users, inflight>>

ReceiveMetrics(payload) == ReceiveWithin(payload, MaxMetrics)

(***************************************************************************)
(* WHERE timestamp > datetime('now', '-N hours')                           *)
(***************************************************************************)
\* mutant: timestamp >= datetime('now', '-N hours')
InWindowInclusive(ts, t, hours) == ts >= t - hours * SecondsPerHour

InWindow(ts, t, hours) == ts > t - hours * SecondsPerHour

Rows(table) == {table[i] : i \in 1..Len(table)}

\* ORDER BY metric_name, timestamp DESC: rows with equal keys come in any order
OrderedBefore(r1, r2) ==
    \/ NameLess(r1.metric_name, r2.metric_name)
    \/ /\ r1.metric_name = r2.metric_name
       /\ r1.timestamp > r2.timestamp

OrderByNameTimeDesc(S) ==
    {p \in [1..Cardinality(S) -> S] :
        /\ \A i, j \in 1..Cardinality(S) : i # j => p[i] # p[j]
        /\ \A i, j \in 1..Cardinality(S) : i < j => ~OrderedBefore(p[j], p[i])}

SelectSystemKind(table, system_id, kinds, t, hours) ==
    {m \in Rows(table) :
        /\ m.system_id = system_id
        /\ m.metric_type \in kinds
        /\ InWindow(m.timestamp, t, hours)}

(***************************************************************************)
(* The grouping loop of the per-system views: one entry per entity in      *)
(* order of first appearance, the first row of each attribute as its       *)
(* latest value, every row in the history.                                 *)
(***************************************************************************)
IndexOf(acc, entity) ==
    IF \E i \in 1..Len(acc) : acc[i].entity_id = entity
    THEN CHOOSE i \in 1..Len(acc) : acc[i].entity_id = entity
    ELSE 0

LatestEntry(m) ==
    [value |-> m.value, unit |-> m.unit, timestamp |-> m.timestamp,
     metadata |-> LoadsMetadata(m.metadata)]

HistoryPoint(m, attr) ==
    [attribute |-> attr, value |-> m.value, timestamp |-> m.timestamp]

StoreLatest(latest, attr, m) ==
    IF attr \in DOMAIN latest THEN latest ELSE (attr :> LatestEntry(m)) @@ latest

RECURSIVE GroupRows(_, _, _, _)
GroupRows(rows, system_id, mode, acc) ==
    IF rows = <<>> THEN acc
    ELSE LET m == Head(rows)
             key == Decode(mode, m.metric_name)
             acc1 == IF IndexOf(acc, key[1]) = 0
                     THEN Append(acc, [entity_id |-> key[1],
                                       system_id |-> system_id,
                                       last_updated |-> m.timestamp,
                                       metrics |-> EmptyMap,
                                       history |-> <<>>])
                     ELSE acc
             k == IndexOf(acc1, key[1])
             acc2 == [acc1 EXCEPT
                        ![k].metrics = StoreLatest(@, key[2], m),
                        ![k].history = Append(@, HistoryPoint(m, key[2]))]
         IN  GroupRows(Tail(rows), system_id, mode, acc2)

SystemView(table, system_id, kinds, mode, t, hours) ==
    {GroupRows(p, system_id, mode, <<>>) :
        p \in OrderByNameTimeDesc(SelectSystemKind(table, system_id, kinds, t, hours))}

(***************************************************************************)
(* GET /systems/{system_id}/metrics: ORDER BY timestamp DESC               *)
(***************************************************************************)
OrderByTimeDesc(S) ==
    {p \in [1..Cardinality(S) -> S] :
        /\ \A i, j \in 1..Cardinality(S) : i # j => p[i] # p[j]
        /\ \A i, j \in 1..Cardinality(S) : i < j => p[i].timestamp >= p[j].timestamp}

SelectSystem(table, system_id, metric_type, t, hours) ==
    {m \in Rows(table) :
        /\ m.system_id = system_id
        /\ InWindow(m.timestamp, t, hours)
        /\ metric_type # "NULL" => m.metric_type = metric_type}

GetSystemMetrics(system_id, metric_type, hours) ==
    /\ \E body \in OrderByTimeDesc(SelectSystem(metrics, system_id, metric_type,
                                                now, hours)) :
          resp' = [op |-> "get_system_metrics", system_id |-> system_id,
                   metric_type |-> metric_type, hours |-> hours, body |-> body]
    /\ UNCHANGED <<now, tables, inflight>>

(***************************************************************************)
(* GET /systems/{system_id}/disks, /replication, /pools                    *)
(***************************************************************************)
GetSystemDisks(system_id, hours) ==
    /\ \E body \in SystemView(metrics, system_id, {"disk"}, "last", now, hours) :
          resp' = [op |-> "get_system_disks", system_id |-> system_id,
                   hours |-> hours, body |-> body]
    /\ UNCHANGED <<now, tables, inflight>>

GetSystemReplication(system_id, hours) ==
    /\ \E body \in SystemView(metrics, system_id, {"replication"}, "last", now, hours) :
          resp' = [op |-> "get_system_replication", system_id |-> system_id,
                   hours |-> hours, body |-> body]
    /\ UNCHANGED <<now, tables, inflight>>

GetSystemPools(system_id) ==
    /\ \E body \in SystemView(metrics, system_id, {"pool", "pool_health"}, "first",
                              now, PoolWindowHours) :
          resp' = [op |-> "get_system_pools", system_id |-> system_id,
                   hours |-> PoolWindowHours, body |-> body]
    /\ UNCHANGED <<now, tables, inflight>>

(***************************************************************************)
(* GET /disks/summary                                                      *)
(***************************************************************************)
DiskCountWindowHours == 24
TempWindowHours == 1
SmartWindowHours == 24
TempWarning == 45
TempCritical == 55

WTemperature == <<"t", "e", "m", "p", "e", "r", "a", "t", "u", "r", "e">>
WSmartStatus == <<"s", "m", "a", "r", "t", "_", "s", "t", "a", "t", "u", "s">>

\* metric_name LIKE '%<pattern>' where every '_' of the pattern stands for
\* any one character (names here are lower case, so the case folding of
\* LIKE changes nothing)
LikeTail(name, pattern) ==
    /\ Len(name) >= Len(pattern)
    /\ \A i \in 1..Len(pattern) :
          \/ pattern[i] = Underscore
          \/ name[Len(name) - Len(pattern) + i] = pattern[i]

\* SUBSTR(metric_name, 1, INSTR(metric_name || '_', '_') - 1)
FirstSegment(name) ==
    SubSeq(name, 1, MinOf(UnderscoreAt(name \o <<Underscore>>)) - 1)

\* the characters of a system id
IdText(id) ==
    CASE id = "s1" -> <<"s", "1">>
      [] id = "s2" -> <<"s", "2">>
      [] id = "a" -> <<"a">>
      [] id = "a_b" -> <<"a", "_", "b">>

\* system_id || '_' || text
SystemKey(system_id, text) == IdText(system_id) \o <<Underscore>> \o text

DiskRows(table, t, hours) ==
    {m \in Rows(table) : m.metric_type = "disk" /\ InWindow(m.timestamp, t, hours)}

TotalDisks(table, t) ==
    Cardinality({SystemKey(m.system_id, FirstSegment(m.metric_name)) :
                    m \in DiskRows(table, t, DiskCountWindowHours)})

TemperatureRows(S) ==
    {m \in S : LikeTail(m.metric_name, <<Underscore>> \o WTemperature)}

\* mutant: a critical temperature is not also a warning
TempOverBand(table, t, limit) ==
    Cardinality({SystemKey(m.system_id, m.metric_name) :
                    m \in {r \in TemperatureRows(DiskRows(table, t, TempWindowHours)) :
                              r.value > limit /\ r.value <= limit + 10}})

TempOver(table, t, limit) ==
    Cardinality({SystemKey(m.system_id, m.metric_name) :
                    m \in {r \in TemperatureRows(DiskRows(table, t, TempWindowHours)) :
                              r.value > limit}})

SmartFailures(table, t) ==
    Cardinality({SystemKey(m.system_id, m.metric_name) :
                    m \in {r \in DiskRows(table, t, SmartWindowHours) :
                              /\ LikeTail(r.metric_name, <<Underscore>> \o WSmartStatus)
                              /\ r.value = 0}})

\* timestamp = (SELECT MAX(timestamp) ... same system_id and metric_name)
LatestTemperatureRows(table) ==
    {m \in TemperatureRows({r \in Rows(table) : r.metric_type = "disk"}) :
        \A o \in Rows(table) :
            (o.system_id = m.system_id /\ o.metric_name = m.metric_name)
                => o.timestamp <= m.timestamp}

RECURSIVE SumValues(_)
SumValues(S) ==
    IF S = {} THEN 0
    ELSE LET m == CHOOSE r \in S : TRUE IN m.value + SumValues(S \ {m})

\* round(sum / count, 1) in tenths: ties go to the even tenth, which is what
\* round() gives for the quotients of fewer than twenty rows
RoundTenths(sum, count) ==
    LET q == (10 * sum) \div count
        r == (10 * sum) % count
    IN  IF 2 * r < count THEN q
        ELSE IF 2 * r > count THEN q + 1
        ELSE IF q % 2 = 0 THEN q ELSE q + 1

\* round(avg_temp, 1) if avg_temp else None
AvgTemperature(table) ==
    LET S == LatestTemperatureRows(table)
    IN  IF S = {} \/ SumValues(S) = 0 THEN <<>>
        ELSE <<RoundTenths(SumValues(S), Cardinality(S))>>

\* str.replace(word, '')
RECURSIVE RemoveAll(_, _)
RemoveAll(name, word) ==
    IF Len(name) < Len(word) THEN name
    ELSE IF SubSeq(name, 1, Len(word)) = word
         THEN RemoveAll(SubSeq(name, Len(word) + 1, Len(name)), word)
         ELSE <<Head(name)>> \o RemoveAll(Tail(name), word)

\* ORDER BY value DESC LIMIT 1: any of the rows of greatest value
HottestDisk(table, t) ==
    LET S == TemperatureRows(DiskRows(table, t, TempWindowHours))
    IN  IF S = {} THEN {<<>>}
        ELSE {<<[disk |-> RemoveAll(m.metric_name, <<Underscore>> \o WTemperature),
                 temperature |-> m.value, system_id |-> m.system_id]>> :
                m \in {r \in S : \A o \in S : o.value <= r.value}}

GetDisksSummary ==
    /\ \E hottest \in HottestDisk(metrics, now) :
          resp' = [op |-> "get_disks_summary",
                   body |-> [total_disks |-> TotalDisks(metrics, now),
                             healthy_disks |-> TotalDisks(metrics, now)
                                               - TempOver(metrics, now, TempWarning)
                                               - SmartFailures(metrics, now),
                             warnings |-> TempOver(metrics, now, TempWarning),
                             critical |-> TempOver(metrics, now, TempCritical)
                                          + SmartFailures(metrics, now),
                             smart_failures |-> SmartFailures(metrics, now),
                             avg_temperature |-> AvgTemperature(metrics),
                             hottest_disk |-> hottest]]
    /\ UNCHANGED <<now, tables, inflight>>

(***************************************************************************)
(* GET /replication/summary                                                *)
(***************************************************************************)
TaskWindowHours == 24
StaleAfterHours == 24
SuccessWindowHours == 168
StatusSuccess == 2

WStatus == <<"s", "t", "a", "t", "u", "s">>
WLastRun == <<"l", "a", "s", "t", "_", "r", "u", "n">>

KindRows(table, kinds) == {m \in Rows(table) : m.metric_type \in kinds}

WindowRows(table, kinds, t, hours) ==
    {m \in KindRows(table, kinds) : InWindow(m.timestamp, t, hours)}

LikeRows(S, word) == {m \in S : LikeTail(m.metric_name, <<Underscore>> \o word)}

\* SUBSTR(metric_name, 1, LENGTH(metric_name) - LENGTH('_<word>'))
DropTail(name, word) == SubSeq(name, 1, Len(name) - (Len(word) + 1))

\* timestamp = (SELECT MAX(timestamp) ... same system_id and metric_name)
IsLatestOfName(table, m) ==
    \A o \in Rows(table) :
        (o.system_id = m.system_id /\ o.metric_name = m.metric_name)
            => o.timestamp <= m.timestamp

NameKeys(S) == {SystemKey(m.system_id, m.metric_name) : m \in S}
StemKeys(S, word) == {SystemKey(m.system_id, DropTail(m.metric_name, word)) : m \in S}
SegmentKeys(S) == {SystemKey(m.system_id, FirstSegment(m.metric_name)) : m \in S}

TotalTasks(table, t) ==
    Cardinality(StemKeys(LikeRows(WindowRows(table, {"replication"}, t,
                                             TaskWindowHours), WStatus), WStatus))

FailedTasks(table, t) ==
    Cardinality(NameKeys({m \in LikeRows(WindowRows(table, {"replication"}, t,
                                                    TaskWindowHours), WStatus) :
                             m.value = 0}))

\* mutant: value < strftime('%s', 'now', '-48 hours')
StaleRowsTwoDays(table, t) ==
    {m \in LikeRows(KindRows(table, {"replication"}), WLastRun) :
        /\ IsLatestOfName(table, m)
        /\ m.value < t - 2 * StaleAfterHours * SecondsPerHour}

\* value < strftime('%s', 'now', '-24 hours')
StaleRows(table, t) ==
    {m \in LikeRows(KindRows(table, {"replication"}), WLastRun) :
        /\ IsLatestOfName(table, m)
        /\ m.value < t - StaleAfterHours * SecondsPerHour}

StaleTasks(table, t) == Cardinality(StemKeys(StaleRows(table, t), WLastRun))

\* ORDER BY timestamp DESC LIMIT 1, column timestamp
LastSuccess(table, t) ==
    LET S == {m \in LikeRows(WindowRows(table, {"replication"}, t,
                                        SuccessWindowHours), WStatus) :
                 m.value = StatusSuccess}
    IN  IF S = {} THEN <<>> ELSE <<MaxOf({m.timestamp : m \in S})>>

\* round((time.time() - value) / 3600, 1) in tenths of an hour; a quotient
\* half way between two tenths is not a binary fraction, so either tenth
HoursAgoTenths(seconds) ==
    LET q == (10 * seconds) \div SecondsPerHour
        r == (10 * seconds) % SecondsPerHour
    IN  IF 2 * r < SecondsPerHour THEN {q}
        ELSE IF 2 * r > SecondsPerHour THEN {q + 1}
        ELSE {q, q + 1}

\* ORDER BY value ASC LIMIT 1: any of the rows of least value
OldestStale(table, t) ==
    LET S == StaleRows(table, t)
    IN  IF S = {} THEN {<<>>}
        ELSE UNION {{<<[task |-> RemoveAll(m.metric_name, <<Underscore>> \o WLastRun),
                        system_id |-> m.system_id, hours_ago |-> h]>> :
                        h \in HoursAgoTenths(t - m.value)} :
                    m \in {r \in S : \A o \in S : r.value <= o.value}}

\* if healthy < 0: healthy = 0
ClampAtZero(n) == IF n < 0 THEN 0 ELSE n

GetReplicationSummary ==
    /\ \E oldest \in OldestStale(metrics, now) :
          resp' = [op |-> "get_replication_summary",
                   body |-> [total_tasks |-> TotalTasks(metrics, now),
                             healthy_tasks |-> ClampAtZero(TotalTasks(metrics, now)
                                                           - FailedTasks(metrics, now)
                                                           - StaleTasks(metrics, now)),
                             failed_tasks |-> FailedTasks(metrics, now),
                             stale_tasks |-> StaleTasks(metrics, now),
                             last_success |-> LastSuccess(metrics, now),
                             oldest_stale |-> oldest]]
    /\ UNCHANGED <<now, tables, inflight>>

(***************************************************************************)
(* GET /pools/summary                                                      *)
(***************************************************************************)
PoolCountWindowHours == 24
ResilverWindowHours == 1
CapacityWindowHours == 1
ScrubAfterHours == 168
ResilverActive == 1
GbPerTb == 1024

WTotal == <<"t", "o", "t", "a", "l">>
WUsed == <<"u", "s", "e", "d">>
WState == <<"s", "t", "a", "t", "e">>
WScrubLast == <<"s", "c", "r", "u", "b", "_", "l", "a", "s", "t">>
WResilverStatus ==
    <<"r", "e", "s", "i", "l", "v", "e", "r", "_", "s", "t", "a", "t", "u", "s">>

TotalPools(table, t) ==
    Cardinality(SegmentKeys(LikeRows(WindowRows(table, {"pool", "pool_health"}, t,
                                                PoolCountWindowHours), WTotal)))

DegradedPools(table, t) ==
    Cardinality(NameKeys({m \in LikeRows(WindowRows(table, {"pool_health"}, t,
                                                    PoolCountWindowHours), WState) :
                             m.value = 0}))

\* value < time.time() - 7 * 24 * 3600
NeedsScrub(table, t) ==
    Cardinality(StemKeys({m \in LikeRows(KindRows(table, {"pool_health"}), WScrubLast) :
                             /\ IsLatestOfName(table, m)
                             /\ m.value < t - ScrubAfterHours * SecondsPerHour},
                         WScrubLast))

ActiveResilvers(table, t) ==
    Cardinality(NameKeys({m \in LikeRows(WindowRows(table, {"pool_health"}, t,
                                                    ResilverWindowHours),
                                         WResilverStatus) :
                             m.value = ResilverActive}))

\* SELECT value ... WHERE system_id = ? AND metric_name = ? ORDER BY
\* timestamp DESC LIMIT 1: the values the subquery can give, none when no
\* row matches
LatestValues(table, system_id, name) ==
    LET S == {m \in Rows(table) : m.system_id = system_id /\ m.metric_name = name}
    IN  {m.value : m \in {r \in S : \A o \in S : o.timestamp <= r.timestamp}}

\* the groups of the capacity query: <<system_id, pool_name>>
CapacityGroups(table, t) ==
    {<<m.system_id, FirstSegment(m.metric_name)>> :
        m \in LikeRows(WindowRows(table, {"pool"}, t, CapacityWindowHours), WUsed)}

\* used / total > 0.8 for values that are not negative; a missing operand
\* or a zero divisor gives NULL, which is not true
OverCapacity(used, total) == total > 0 /\ 5 * used > 4 * total

\* the numbers of groups the HAVING clause can keep
CapacityWarnings(table, t) ==
    LET G == CapacityGroups(table, t)
        Used(g) == LatestValues(table, g[1], Join(g[2], WUsed))
        Total(g) == LatestValues(table, g[1], Join(g[2], WTotal))
        Can(g) == \E u \in Used(g), c \in Total(g) : OverCapacity(u, c)
        Must(g) == /\ Used(g) # {}
                   /\ Total(g) # {}
                   /\ \A u \in Used(g), c \in Total(g) : OverCapacity(u, c)
    IN  {Cardinality(K) : K \in {K \in SUBSET G :
                                    /\ \A g \in K : Can(g)
                                    /\ \A g \in G : Must(g) => g \in K}}

\* timestamp = (SELECT MAX(timestamp) ... same system_id, metric_type 'pool')
LatestPoolRows(table, word) ==
    {m \in LikeRows(KindRows(table, {"pool"}), word) :
        \A o \in KindRows(table, {"pool"}) :
            o.system_id = m.system_id => o.timestamp <= m.timestamp}

\* round(sum / 1024, 2) in hundredths of a TB: the halves are binary
\* fractions, which round() takes to the even hundredth
RoundHundredths(sum, per) ==
    LET q == (100 * sum) \div per
        r == (100 * sum) % per
    IN  IF 2 * r < per THEN q
        ELSE IF 2 * r > per THEN q + 1
        ELSE IF q % 2 = 0 THEN q ELSE q + 1

CapacityTb(table, word) ==
    RoundHundredths(SumValues(LatestPoolRows(table, word)), GbPerTb)

GetPoolsSummary ==
    /\ \E warnings \in CapacityWarnings(metrics, now) :
          resp' = [op |-> "get_pools_summary",
                   body |-> [total_pools |-> TotalPools(metrics, now),
                             healthy_pools |-> ClampAtZero(TotalPools(metrics, now)
                                                           - DegradedPools(metrics, now)
                                                           - NeedsScrub(metrics, now)),
                             degraded_pools |-> DegradedPools(metrics, now),
                             needs_scrub |-> NeedsScrub(metrics, now),
                             active_resilvers |-> ActiveResilvers(metrics, now),
                             capacity_warnings |-> warnings,
                             total_capacity_tb |-> CapacityTb(metrics, WTotal),
                             used_capacity_tb |-> CapacityTb(metrics, WUsed)]]
    /\ UNCHANGED <<now, tables, inflight>>

(***************************************************************************)
(* GET /disks, /replication, /pools: the rows of the last 24 h of every    *)
(* known system, ORDER BY system_id, metric_name, timestamp DESC, grouped  *)
(* by system and entity; the first row of each attribute is its value.     *)
(* The entity map ('disks', 'tasks', 'pools') is field entities, its key   *)
(* ('disk_id', 'task_id', 'pool_name') is field entity_id.                 *)
(***************************************************************************)
FleetWindowHours == 24

FleetOrderedBefore(r1, r2) ==
    \/ NameLess(IdText(r1.system_id), IdText(r2.system_id))
    \/ /\ r1.system_id = r2.system_id
       /\ OrderedBefore(r1, r2)

OrderBySystemNameTimeDesc(S) ==
    {p \in [1..Cardinality(S) -> S] :
        /\ \A i, j \in 1..Cardinality(S) : i # j => p[i] # p[j]
        /\ \A i, j \in 1..Cardinality(S) : i < j => ~FleetOrderedBefore(p[j], p[i])}

\* JOIN systems s ON m.system_id = s.id
SelectFleetKind(table, sys, kinds, t) ==
    {m \in Rows(table) :
        /\ m.system_id \in DOMAIN sys
        /\ m.metric_type \in kinds
        /\ InWindow(m.timestamp, t, FleetWindowHours)}

SystemIndexOf(acc, system_id) ==
    IF \E i \in 1..Len(acc) : acc[i].system_id = system_id
    THEN CHOOSE i \in 1..Len(acc) : acc[i].system_id = system_id
    ELSE 0

RECURSIVE GroupFleetRows(_, _, _, _)
GroupFleetRows(rows, sys, mode, acc) ==
    IF rows = <<>> THEN acc
    ELSE LET m == Head(rows)
             key == Decode(mode, m.metric_name)
             acc1 == IF SystemIndexOf(acc, m.system_id) = 0
                     THEN Append(acc, [system_id |-> m.system_id,
                                       system_name |-> sys[m.system_id].name,
                                       client_name |-> sys[m.system_id].client_name,
                                       entities |-> <<>>])
                     ELSE acc
             k == SystemIndexOf(acc1, m.system_id)
             ents == acc1[k].entities
             ents1 == IF IndexOf(ents, key[1]) = 0
                      THEN Append(ents, [entity_id |-> key[1],
                                         attributes |-> EmptyMap])
                      ELSE ents
             e == IndexOf(ents1, key[1])
             ents2 == [ents1 EXCEPT ![e].attributes = StoreLatest(@, key[2], m)]
         IN  GroupFleetRows(Tail(rows), sys, mode,
                            [acc1 EXCEPT ![k].entities = ents2])

FleetView(table, sys, kinds, mode, t) ==
    {GroupFleetRows(p, sys, mode, <<>>) :
        p \in OrderBySystemNameTimeDesc(SelectFleetKind(table, sys, kinds, t))}

GetAllDisks ==
    /\ \E body \in FleetView(metrics, systems, {"disk"}, "last", now) :
          resp' = [op |-> "get_all_disks", body |-> body]
    /\ UNCHANGED <<now, tables, inflight>>

GetAllReplication ==
    /\ \E body \in FleetView(metrics, systems, {"replication"}, "last", now) :
          resp' = [op |-> "get_all_replication", body |-> body]
    /\ UNCHANGED <<now, tables, inflight>>

GetAllPools ==
    /\ \E body \in FleetView(metrics, systems, {"pool", "pool_health"}, "first", now) :
          resp' = [op |-> "get_all_pools", body |-> body]
    /\ UNCHANGED <<now, tables, inflight>>

(***************************************************************************)
(* GET /alerts: JOIN systems, optional filter, ORDER BY a.timestamp DESC   *)
(***************************************************************************)
JoinSystemName(table, sys) ==
    {[alert |-> a, system_name |-> sys[a.system_id].name] :
        a \in {r \in Rows(table) : r.system_id \in DOMAIN sys}}

OrderAlertsByTimeDesc(S) ==
    {p \in [1..Cardinality(S) -> S] :
        /\ \A i, j \in 1..Cardinality(S) : i # j => p[i] # p[j]
        /\ \A i, j \in 1..Cardinality(S) :
              i < j => p[i].alert.timestamp >= p[j].alert.timestamp}

\* acknowledged is "NULL" (no filter), "true" or "false"
SelectAlerts(table, sys, acknowledged) ==
    {r \in JoinSystemName(table, sys) :
        acknowledged # "NULL" => r.alert.acknowledged = (acknowledged = "true")}

GetAlerts(acknowledged) ==
    /\ \E body \in OrderAlertsByTimeDesc(SelectAlerts(alerts, systems, acknowledged)) :
          resp' = [op |-> "get_alerts", body |-> body]
    /\ UNCHANGED <<now, tables, inflight>>

(***************************************************************************)
(* POST /alerts/{alert_id}/acknowledge                                     *)
(***************************************************************************)
\* mutant: WHERE id = ? AND acknowledged = FALSE
WhereIdUnacknowledged(table, alert_id) ==
    {i \in 1..Len(table) : table[i].id = alert_id /\ ~table[i].acknowledged}

\* WHERE id = ?
WhereId(table, alert_id) == {i \in 1..Len(table) : table[i].id = alert_id}

\* cursor.rowcount of the UPDATE
Rowcount(table, alert_id) == Cardinality(WhereId(table, alert_id))

\* mutant: if cursor.rowcount < 0
NoRowUpdatedNegative(table, alert_id) == Rowcount(table, alert_id) < 0

\* if cursor.rowcount == 0
NoRowUpdated(table, alert_id) == Rowcount(table, alert_id) = 0

\* mutant: SET acknowledged = NOT acknowledged
AcknowledgeRowsToggle(table, alert_id) ==
    [i \in 1..Len(table) |->
        IF i \in WhereId(table, alert_id)
        THEN [table[i] EXCEPT !.acknowledged = ~@]
        ELSE table[i]]

\* mutant: UPDATE alerts SET acknowledged = TRUE
AcknowledgeRowsAll(table, alert_id) ==
    [i \in 1..Len(table) |-> [table[i] EXCEPT !.acknowledged = TRUE]]

\* UPDATE alerts SET acknowledged = TRUE WHERE id = ?
AcknowledgeRows(table, alert_id) ==
    [i \in 1..Len(table) |->
        IF i \in WhereId(table, alert_id)
        THEN [table[i] EXCEPT !.acknowledged = TRUE]
        ELSE table[i]]

AcknowledgeAlert(alert_id) ==
    /\ IF NoRowUpdated(alerts, alert_id)
       THEN /\ resp' = [op |-> "acknowledge_alert", code |-> 404,
                        detail |-> "Alert not found", alert_id |-> alert_id]
            /\ UNCHANGED alerts
       ELSE /\ alerts' = AcknowledgeRows(alerts, alert_id)
            /\ resp' = [op |-> "acknowledge_alert", code |-> 200,
                        status |-> "ok", alert_id |-> alert_id]
    /\ UNCHANGED <<now, systems, metrics, users, inflight>>

(***************************************************************************)
(* POST /alerts/{alert_id}/create-ticket                                   *)
(***************************************************************************)
\* str.upper() on the PSA names the requests carry
Upper(psa) ==
    CASE psa = "halo" -> "HALO"
      [] psa = "HALO" -> "HALO"
      [] psa = "autotask" -> "AUTOTASK"

\* f"{ticket.psa.upper()}-{alert_id}-001"
MockTicketId(psa, alert_id) == <<Upper(psa), alert_id, "001">>

\* mutant: WHERE id = ? AND ticket_id IS NULL
CreateTicketRowsKeepFirst(table, alert_id, ticket_id) ==
    [i \in 1..Len(table) |->
        IF i \in WhereId(table, alert_id) /\ table[i].ticket_id = NoTicket
        THEN [table[i] EXCEPT !.ticket_id = ticket_id, !.acknowledged = TRUE]
        ELSE table[i]]

\* UPDATE alerts SET ticket_id = ?, acknowledged = TRUE WHERE id = ?
CreateTicketRows(table, alert_id, ticket_id) ==
    [i \in 1..Len(table) |->
        IF i \in WhereId(table, alert_id)
        THEN [table[i] EXCEPT !.ticket_id = ticket_id, !.acknowledged = TRUE]
        ELSE table[i]]

CreateTicket(alert_id, psa) ==
    /\ alerts' = CreateTicketRows(alerts, alert_id, MockTicketId(psa, alert_id))
    /\ resp' = [op |-> "create_ticket", code |-> 200, status |-> "ok",
                alert_id |-> alert_id,
                ticket_id |-> MockTicketId(psa, alert_id), psa |-> psa]
    /\ UNCHANGED <<now, systems, metrics, users, inflight>>

(***************************************************************************)
(* Users: the seeded administrator, authentication of the caller and the   *)
(* user management endpoints (admin only).                                 *)
(***************************************************************************)
AdminEmail == "admin@truenas-mon.local"
ValidRoles == {"admin", "operator", "viewer"}

\* seed_admin_user: runs at start-up, inserts only into an empty table
SeedAdminUser(table) ==
    IF Len(table) = 0
    THEN <<[id |-> 1, email |-> AdminEmail, full_name |-> "Administrator",
            role |-> "admin", is_active |-> TRUE, created_by |-> 0]>>
    ELSE table

UsersByEmail(table, email) == {i \in 1..Len(table) : table[i].email = email}
UsersById(table, id) == {i \in 1..Len(table) : table[i].id = id}

\* get_current_user and require_role: the status the dependency answers with
RequireRole(table, email, allowed) ==
    IF UsersByEmail(table, email) = {} THEN 401
    ELSE LET u == table[CHOOSE i \in UsersByEmail(table, email) : TRUE]
         IN  IF ~u.is_active THEN 400
             ELSE IF u.role \notin allowed THEN 403
             ELSE 200

CurrentUser(table, email) == table[CHOOSE i \in UsersByEmail(table, email) : TRUE]

Refuse(op, code) ==
    /\ resp' = [op |-> op, code |-> code]
    /\ UNCHANGED <<now, tables, inflight>>

\* POST /users
CreateUser(caller, user_data) ==
    IF RequireRole(users, caller, {"admin"}) # 200
    THEN Refuse("create_user", RequireRole(users, caller, {"admin"}))
    ELSE IF UsersByEmail(users, user_data.email) # {} THEN Refuse("create_user", 400)
    ELSE IF user_data.role \notin ValidRoles THEN Refuse("create_user", 400)
    ELSE /\ users' = Append(users, [id |-> NextId(users),
                                    email |-> user_data.email,
                                    full_name |-> user_data.full_name,
                                    role |-> user_data.role,
                                    is_active |-> TRUE,
                                    created_by |-> CurrentUser(users, caller).id])
         /\ resp' = [op |-> "create_user", code |-> 200, id |-> NextId(users)]
         /\ UNCHANGED <<now, systems, metrics, alerts, inflight>>

\* UPDATE users SET ... WHERE id = ?; a field that is "NULL" is not updated
UpdateUserRows(table, user_id, user_data) ==
    [i \in 1..Len(table) |->
        IF i \in UsersById(table, user_id)
        THEN [table[i] EXCEPT
                !.full_name = IF user_data.full_name # "NULL"
                              THEN user_data.full_name ELSE @,
                !.role = IF user_data.role # "NULL" THEN user_data.role ELSE @,
                !.is_active = IF user_data.is_active # "NULL"
                              THEN user_data.is_active = "true" ELSE @]
        ELSE table[i]]

\* PUT /users/{user_id}
UpdateUser(caller, user_id, user_data) ==
    IF RequireRole(users, caller, {"admin"}) # 200
    THEN Refuse("update_user", RequireRole(users, caller, {"admin"}))
    ELSE IF UsersById(users, user_id) = {} THEN Refuse("update_user", 404)
    ELSE IF user_id = CurrentUser(users, caller).id /\ user_data.is_active = "false"
    THEN Refuse("update_user", 400)
    ELSE IF user_data.role # "NULL" /\ user_data.role \notin ValidRoles
    THEN Refuse("update_user", 400)
    ELSE IF /\ user_data.role # "NULL"
            /\ user_id = CurrentUser(users, caller).id
            /\ user_data.role # "admin"
    THEN Refuse("update_user", 400)
    ELSE IF /\ user_data.full_name = "NULL"
            /\ user_data.role = "NULL"
            /\ user_data.is_active = "NULL"
    THEN Refuse("update_user", 400)
    ELSE /\ users' = UpdateUserRows(users, user_id, user_data)
         /\ resp' = [op |-> "update_user", code |-> 200, id |-> user_id]
         /\ UNCHANGED <<now, systems, metrics, alerts, inflight>>

\* DELETE /users/{user_id}: UPDATE users SET is_active = FALSE WHERE id = ?
DeleteUser(caller, user_id) ==
    IF RequireRole(users, caller, {"admin"}) # 200
    THEN Refuse("delete_user", RequireRole(users, caller, {"admin"}))
    ELSE IF UsersById(users, user_id) = {} THEN Refuse("delete_user", 404)
    ELSE IF user_id = CurrentUser(users, caller).id THEN Refuse("delete_user", 400)
    ELSE /\ users' = [i \in 1..Len(users) |->
                        IF i \in UsersById(users, user_id)
                        THEN [users[i] EXCEPT !.is_active = FALSE]
                        ELSE users[i]]
         /\ resp' = [op |-> "delete_user", code |-> 200, id |-> user_id]
         /\ UNCHANGED <<now, systems, metrics, alerts, inflight>>

\* GET /users
ListUsers(caller) ==
    IF RequireRole(users, caller, {"admin"}) # 200
    THEN Refuse("list_users", RequireRole(users, caller, {"admin"}))
    ELSE /\ resp' = [op |-> "list_users", code |-> 200, body |-> users]
         /\ UNCHANGED <<now, tables, inflight>>

(***************************************************************************)
(* Webhook requests in flight.                                             *)
(***************************************************************************)
Workers == {"w1", "w2"}
NoWriter == "none"
EmptyPayload ==
    [system |-> [id |-> "NULL", name |-> "NULL", hostname |-> "NULL",
                 version |-> "NULL", client_name |-> "NULL"],
     metrics |-> <<>>, alerts |-> <<>>]
IdleRequest ==
    [pc |-> "idle", payload |-> EmptyPayload, k |-> 0, seen |-> 0,
     tx |-> [systems |-> EmptyMap, metrics |-> <<>>, alerts |-> <<>>]]

(***************************************************************************)
(* POST /webhook/metrics, statement by statement. The connection opens an  *)
(* implicit transaction at its first INSERT and holds the write lock until *)
(* it commits or is dropped; other connections read the committed tables.  *)
(***************************************************************************)
\* mutant: the connection runs in autocommit mode
AutocommitEffect(committed, pending) == pending

\* what other connections see after a statement of an open transaction
StatementEffect(committed, pending) == committed

PendingRows(field) ==
    LET Sum[S \in SUBSET Workers] ==
            IF S = {} THEN 0
            ELSE LET w == CHOOSE x \in S : TRUE
                 IN  Len(ingest[w].payload[field]) + Sum[S \ {w}]
    IN  Sum[Workers]

\* the request opens its connection and evaluates the parameters of its
\* first statement, datetime.utcnow() among them, before that statement
\* waits for the write lock
BeginIngest(w, payload) ==
    /\ ingest[w].pc = "idle"
    /\ Len(metrics) + PendingRows("metrics") + Len(payload.metrics) <= MaxMetrics
    /\ Len(alerts) + PendingRows("alerts") + Len(payload.alerts) <= MaxAlerts
    /\ ingest' = [ingest EXCEPT ![w] = [IdleRequest EXCEPT !.pc = "upsert",
                                                          !.payload = payload,
                                                          !.seen = now]]
    /\ UNCHANGED <<now, tables, resp, writer, handlers>>

UpsertStep(w) ==
    /\ ingest[w].pc = "upsert"
    /\ writer = NoWriter
    /\ LET tx == [systems |-> UpsertSystem(systems, ingest[w].payload.system,
                                           ingest[w].seen),
                  metrics |-> metrics,
                  alerts |-> alerts]
       IN  /\ ingest' = [ingest EXCEPT ![w].pc = "metrics", ![w].k = 0, ![w].tx = tx]
           /\ systems' = StatementEffect(systems, tx.systems)
    /\ writer' = w
    /\ UNCHANGED <<now, metrics, alerts, users, resp, handlers>>

InsertMetricStep(w) ==
    /\ ingest[w].pc = "metrics"
    /\ IF ingest[w].k < Len(ingest[w].payload.metrics)
       THEN LET rows == InsertMetrics(ingest[w].tx.metrics,
                                      <<ingest[w].payload.metrics[ingest[w].k + 1]>>,
                                      now)
            IN  /\ ingest' = [ingest EXCEPT ![w].k = @ + 1, ![w].tx.metrics = rows]
                /\ metrics' = StatementEffect(metrics, rows)
       ELSE /\ ingest' = [ingest EXCEPT ![w].pc = "alerts", ![w].k = 0]
            /\ UNCHANGED metrics
    /\ UNCHANGED <<now, systems, alerts, users, resp, writer, handlers>>

InsertAlertStep(w) ==
    /\ ingest[w].pc = "alerts"
    /\ IF ingest[w].k < Len(ingest[w].payload.alerts)
       THEN LET rows == InsertAlerts(ingest[w].tx.alerts,
                                     <<ingest[w].payload.alerts[ingest[w].k + 1]>>,
                                     now)
            IN  /\ ingest' = [ingest EXCEPT ![w].k = @ + 1, ![w].tx.alerts = rows]
                /\ alerts' = StatementEffect(alerts, rows)
       ELSE /\ ingest' = [ingest EXCEPT ![w].pc = "commit", ![w].k = 0]
            /\ UNCHANGED alerts
    /\ UNCHANGED <<now, systems, metrics, users, resp, writer, handlers>>

CommitStep(w) ==
    /\ ingest[w].pc = "commit"
    /\ systems' = ingest[w].tx.systems
    /\ metrics' = ingest[w].tx.metrics
    /\ alerts' = ingest[w].tx.alerts
    /\ writer' = NoWriter
    /\ resp' = [op |-> "receive_metrics", code |-> 200, status |-> "ok",
                metrics_received |-> Len(ingest[w].payload.metrics),
                alerts_received |-> Len(ingest[w].payload.alerts)]
    /\ ingest' = [ingest EXCEPT ![w] = IdleRequest]
    /\ UNCHANGED <<now, users, handlers>>

\* a statement raises (the database stays locked past the busy timeout, the
\* payload carries null for a list, the disk fails): the handler ends without
\* commit and the dropped connection rolls its transaction back
FailStep(w) ==
    /\ ingest[w].pc \in {"upsert", "metrics", "alerts", "commit"}
    /\ writer' = IF writer = w THEN NoWriter ELSE writer
    /\ resp' = [op |-> "receive_metrics", code |-> 500]
    /\ ingest' = [ingest EXCEPT ![w] = IdleRequest]
    /\ UNCHANGED <<now, tables, handlers>>

(***************************************************************************)
(* GET /disks/summary, statement by statement. The handler is a plain      *)
(* function, which the server runs on a worker thread; its connection      *)
(* opens no transaction, so each SELECT reads the tables as they are       *)
(* committed when it runs. Field seen keeps, for each statement run, the   *)
(* length of the committed metric log at that moment.                      *)
(***************************************************************************)
IdleSummary ==
    [pc |-> "idle", seen |-> <<>>, total_disks |-> 0, temp_warnings |-> 0,
     temp_critical |-> 0, smart_failures |-> 0, avg_temp |-> <<>>]

\* mutant: the statements of one request read the log as it was at the first
ReadViewAtFirst(committed, seen) ==
    IF seen = <<>> THEN committed ELSE SubSeq(committed, 1, seen[1])

\* the rows a statement of the request reads
ReadView(committed, seen) == committed

DisksSummaryBody(total_disks, temp_warnings, temp_critical, smart_failures, avg_temp, hottest_disk) ==
    [total_disks |-> total_disks,
     healthy_disks |-> total_disks - temp_warnings - smart_failures,
     warnings |-> temp_warnings,
     critical |-> temp_critical + smart_failures,
     smart_failures |-> smart_failures,
     avg_temperature |-> avg_temp,
     hottest_disk |-> hottest_disk]

ReadTotalDisks ==
    /\ summary.pc = "idle"
    /\ summary' = [IdleSummary EXCEPT
                      !.pc = "temp_warnings",
                      !.seen = <<Len(metrics)>>,
                      !.total_disks = TotalDisks(ReadView(metrics, <<>>), now)]
    /\ UNCHANGED <<now, tables, resp, ingest, writer, requests>>

ReadTempWarnings ==
    /\ summary.pc = "temp_warnings"
    /\ summary' = [summary EXCEPT
                      !.pc = "temp_critical",
                      !.seen = Append(@, Len(metrics)),
                      !.temp_warnings = TempOver(ReadView(metrics, summary.seen), now,
                                                 TempWarning)]
    /\ UNCHANGED <<now, tables, resp, ingest, writer, requests>>

ReadTempCritical ==
    /\ summary.pc = "temp_critical"
    /\ summary' = [summary EXCEPT
                      !.pc = "smart_failures",
                      !.seen = Append(@, Len(metrics)),
                      !.temp_critical = TempOver(ReadView(metrics, summary.seen), now,
                                                 TempCritical)]
    /\ UNCHANGED <<now, tables, resp, ingest, writer, requests>>

ReadSmartFailures ==
    /\ summary.pc = "smart_failures"
    /\ summary' = [summary EXCEPT
                      !.pc = "avg_temp",
                      !.seen = Append(@, Len(metrics)),
                      !.smart_failures = SmartFailures(ReadView(metrics, summary.seen), now)]
    /\ UNCHANGED <<now, tables, resp, ingest, writer, requests>>

ReadAvgTemperature ==
    /\ summary.pc = "avg_temp"
    /\ summary' = [summary EXCEPT
                      !.pc = "hottest",
                      !.seen = Append(@, Len(metrics)),
                      !.avg_temp = AvgTemperature(ReadView(metrics, summary.seen))]
    /\ UNCHANGED <<now, tables, resp, ingest, writer, requests>>

\* the last statement, conn.close() and the response
ReadHottestDisk ==
    /\ summary.pc = "hottest"
    /\ summary' = [summary EXCEPT !.pc = "idle", !.seen = Append(@, Len(metrics))]
    /\ \E hottest \in HottestDisk(ReadView(metrics, summary.seen), now) :
          resp' = [op |-> "get_disks_summary",
                   body |-> DisksSummaryBody(summary.total_disks, summary.temp_warnings,
                                             summary.temp_critical, summary.smart_failures,
                                             summary.avg_temp, hottest)]
    /\ UNCHANGED <<now, tables, ingest, writer, requests>>

(***************************************************************************)
(* User-management requests in flight: the dependency get_current_user,    *)
(* require_role has run and the handler body has not.                      *)
(***************************************************************************)
IdleUserRequest == [pc |-> "idle", current_user |-> <<>>]

\* Depends(require_role(["admin"])): the caller's row as read now, or the
\* status that ends the request
AuthorizeUserRequest(w, caller) ==
    /\ requests[w].pc = "idle"
    /\ IF RequireRole(users, caller, {"admin"}) # 200
       THEN /\ resp' = [op |-> "require_role",
                        code |-> RequireRole(users, caller, {"admin"})]
            /\ UNCHANGED requests
       ELSE /\ requests' = [requests EXCEPT
                              ![w] = [pc |-> "authorized",
                                      current_user |-> <<CurrentUser(users, caller)>>]]
            /\ UNCHANGED resp
    /\ UNCHANGED <<now, tables, ingest, writer, summary>>

EndUserRequest(w, op, code) ==
    /\ resp' = [op |-> op, code |-> code]
    /\ requests' = [requests EXCEPT ![w] = IdleUserRequest]
    /\ UNCHANGED <<now, tables, ingest, writer, summary>>

\* the body of create_user, with the current_user the dependency returned
CreateUserBody(w, user_data) ==
    /\ requests[w].pc = "authorized"
    /\ IF UsersByEmail(users, user_data.email) # {} THEN EndUserRequest(w, "create_user", 400)
       ELSE IF user_data.role \notin ValidRoles THEN EndUserRequest(w, "create_user", 400)
       ELSE /\ users' = Append(users, [id |-> NextId(users),
                                       email |-> user_data.email,
                                       full_name |-> user_data.full_name,
                                       role |-> user_data.role,
                                       is_active |-> TRUE,
                                       created_by |-> requests[w].current_user[1].id])
            /\ resp' = [op |-> "create_user", code |-> 200, id |-> NextId(users)]
            /\ requests' = [requests EXCEPT ![w] = IdleUserRequest]
            /\ UNCHANGED <<now, systems, metrics, alerts, ingest, writer, summary>>

\* the body of update_user
UpdateUserBody(w, user_id, user_data) ==
    /\ requests[w].pc = "authorized"
    /\ IF UsersById(users, user_id) = {} THEN EndUserRequest(w, "update_user", 404)
       ELSE IF user_id = requests[w].current_user[1].id /\ user_data.is_active = "false"
       THEN EndUserRequest(w, "update_user", 400)
       ELSE IF user_data.role # "NULL" /\ user_data.role \notin ValidRoles
       THEN EndUserRequest(w, "update_user", 400)
       ELSE IF /\ user_data.role # "NULL"
               /\ user_id = requests[w].current_user[1].id
               /\ user_data.role # "admin"
       THEN EndUserRequest(w, "update_user", 400)
       ELSE IF /\ user_data.full_name = "NULL"
               /\ user_data.role = "NULL"
               /\ user_data.is_active = "NULL"
       THEN EndUserRequest(w, "update_user", 400)
       ELSE /\ users' = UpdateUserRows(users, user_id, user_data)
            /\ resp' = [op |-> "update_user", code |-> 200, id |-> user_id]
            /\ requests' = [requests EXCEPT ![w] = IdleUserRequest]
            /\ UNCHANGED <<now, systems, metrics, alerts, ingest, writer, summary>>

\* the body of delete_user
DeleteUserBody(w, user_id) ==
    /\ requests[w].pc = "authorized"
    /\ IF UsersById(users, user_id) = {} THEN EndUserRequest(w, "delete_user", 404)
       ELSE IF user_id = requests[w].current_user[1].id
       THEN EndUserRequest(w, "delete_user", 400)
       ELSE /\ users' = [i \in 1..Len(users) |->
                           IF i \in UsersById(users, user_id)
                           THEN [users[i] EXCEPT !.is_active = FALSE]
                           ELSE users[i]]
            /\ resp' = [op |-> "delete_user", code |-> 200, id |-> user_id]
            /\ requests' = [requests EXCEPT ![w] = IdleUserRequest]
            /\ UNCHANGED <<now, systems, metrics, alerts, ingest, writer, summary>>

(***************************************************************************)
(* The clock advances between requests.                                    *)
(***************************************************************************)
Tick(instants) ==
    /\ \E t \in instants : t > now /\ now' = t
    /\ resp' = NoResponse
    /\ UNCHANGED <<tables, inflight>>

Init ==
    /\ now = 0
    /\ systems = EmptyMap
    /\ metrics = <<>>
    /\ alerts = <<>>
    /\ users = SeedAdminUser(<<>>)
    /\ resp = NoResponse
    /\ ingest = [w \in Workers |-> IdleRequest]
    /\ writer = NoWriter
    /\ summary = IdleSummary
    /\ requests = [w \in Workers |-> IdleUserRequest]

(***************************************************************************)
(* Projection: metric batches and the per-system views.                    *)
(***************************************************************************)
SystemIds == {"s1", "s2"}
ProjInstants == {3600, 90000}
ProjHours == {1, 2}
ProjSources ==
    {<<"s1", "disk">>, <<"s2", "replication">>, <<"s1", "pool">>}
ProjReadings == {<<WX, 1>>, <<WX, 2>>, <<Join(WX, WValue), 2>>}
ProjTypeFilters == {"NULL", "disk"}

SystemInfoOf(id) ==
    [id |-> id, name |-> id, hostname |-> "NULL", version |-> "NULL",
     client_name |-> "NULL"]

ProjTemperature ==
    [system_id |-> "s1", metric_type |-> "disk",
     metric_name |-> Join(WX, WTemperature), value |-> 50, unit |-> "NULL",
     metadata |-> <<>>]

ProjMetricData ==
    {[system_id |-> src[1], metric_type |-> src[2], metric_name |-> rd[1],
      value |-> rd[2], unit |-> "NULL", metadata |-> <<>>] :
        src \in ProjSources, rd \in ProjReadings} \cup {ProjTemperature}

ProjPayloads ==
    {[system |-> SystemInfoOf(m[1].system_id), metrics |-> m, alerts |-> <<>>] :
        m \in SeqsUpTo(ProjMetricData, MaxBatch) \ {<<>>}}

NextProj ==
    \/ Tick(ProjInstants)
    \/ \E p \in ProjPayloads : ReceiveMetrics(p)
    \/ \E s \in SystemIds, h \in ProjHours, ty \in ProjTypeFilters :
          GetSystemMetrics(s, ty, h)
    \/ \E s \in SystemIds, h \in ProjHours : GetSystemDisks(s, h)
    \/ \E s \in SystemIds, h \in ProjHours : GetSystemReplication(s, h)
    \/ \E s \in SystemIds : GetSystemPools(s)
    \/ GetDisksSummary

SpecProj == Init /\ [][NextProj]_vars

(***************************************************************************)
(* Alert log: alert batches, acknowledge, create_ticket and the listing.   *)
(***************************************************************************)
AlertInstants == {3600}
AlertIds == 1..MaxAlerts + 1
PsaNames == {"halo", "HALO", "autotask"}
AckFilters == {"NULL", "true", "false"}

AlertDataSet ==
    [system_id : SystemIds, severity : {"critical"}, message : {"m"}]

AlertPayloads ==
    {[system |-> SystemInfoOf(s), metrics |-> <<>>, alerts |-> a] :
        s \in SystemIds, a \in SeqsUpTo(AlertDataSet, MaxBatch) \ {<<>>}}

NextAlerts ==
    \/ Tick(AlertInstants)
    \/ \E p \in AlertPayloads : ReceiveMetrics(p)
    \/ \E f \in AckFilters : GetAlerts(f)
    \/ \E id \in AlertIds : AcknowledgeAlert(id)
    \/ \E id \in AlertIds, psa \in PsaNames : CreateTicket(id, psa)

SpecAlerts == Init /\ [][NextAlerts]_vars

(***************************************************************************)
(* The whole program: every handler, on small inputs.                      *)
(***************************************************************************)
LogHours == {24}
LogMetricData ==
    {[system_id |-> "s1", metric_type |-> "disk", metric_name |-> Join(WX, WTemp),
      value |-> 1, unit |-> "C", metadata |-> <<"k", "v">>]}
LogAlertData == {[system_id |-> "s1", severity |-> "warning", message |-> "m"]}
LogPayloads ==
    {[system |-> SystemInfoOf("s1"), metrics |-> m, alerts |-> a] :
        m \in SeqsUpTo(LogMetricData, MaxBatch), a \in SeqsUpTo(LogAlertData, MaxBatch)}
LogCallers == {AdminEmail, "op@truenas-mon.local"}
LogUserIds == 1..Cardinality(LogCallers) + 1
LogUserCreate ==
    [email : {"op@truenas-mon.local"}, full_name : {"NULL"}, role : {"operator"}]
LogUserUpdate ==
    [full_name : {"NULL"}, role : {"NULL", "viewer"}, is_active : {"NULL", "false"}]

Next ==
    \/ \E p \in LogPayloads : ReceiveMetrics(p)
    \/ \E h \in LogHours : GetSystemMetrics("s1", "NULL", h)
    \/ \E h \in LogHours : GetSystemDisks("s1", h)
    \/ \E h \in LogHours : GetSystemReplication("s1", h)
    \/ GetSystemPools("s1")
    \/ GetDisksSummary
    \/ GetReplicationSummary
    \/ GetPoolsSummary
    \/ GetAllDisks
    \/ GetAllReplication
    \/ GetAllPools
    \/ GetAlerts("NULL")
    \/ \E id \in AlertIds : AcknowledgeAlert(id)
    \/ \E id \in AlertIds : CreateTicket(id, "halo")
    \/ \E c \in LogCallers : ListUsers(c)
    \/ \E c \in LogCallers, d \in LogUserCreate : CreateUser(c, d)
    \/ \E c \in LogCallers, id \in LogUserIds, d \in LogUserUpdate : UpdateUser(c, id, d)
    \/ \E c \in LogCallers, id \in LogUserIds : DeleteUser(c, id)

Spec == Init /\ [][Next]_vars

(***************************************************************************)
(* Concurrent ingestion: two webhook requests in flight, and readers.      *)
(***************************************************************************)
IngestMetricData(s) ==
    [system_id |-> s, metric_type |-> "disk", metric_name |-> Join(WX, WTemp),
     value |-> 1, unit |-> "C", metadata |-> <<>>]
IngestAlertData(s) == [system_id |-> s, severity |-> "warning", message |-> "m"]
IngestPayloadsOf(s) ==
    {[system |-> SystemInfoOf(s), metrics |-> m, alerts |-> a] :
        m \in SeqsUpTo({IngestMetricData(s)}, MaxBatch),
        a \in SeqsUpTo({IngestAlertData(s)}, MaxBatch)}
IngestPayloads == UNION {IngestPayloadsOf(s) : s \in SystemIds}

NextIngest ==
    \/ \E w \in Workers, p \in IngestPayloads : BeginIngest(w, p)
    \/ \E w \in Workers : UpsertStep(w)
    \/ \E w \in Workers : InsertMetricStep(w)
    \/ \E w \in Workers : InsertAlertStep(w)
    \/ \E w \in Workers : CommitStep(w)
    \/ \E w \in Workers : FailStep(w)
    \/ \E s \in SystemIds : GetSystemMetrics(s, "NULL", 24)

SpecIngest == Init /\ [][NextIngest]_vars

(***************************************************************************)
(* Fleet summaries and detail views: disks, replication tasks and pools of *)
(* three systems, two of whose ids differ by an underscore.                *)
(***************************************************************************)
SummaryInstants == {90000}
SummarySystems == {"s1", "a", "a_b"}
SummaryReadings ==
    {<<"s1", "disk", Join(WX, WTemperature), 50>>,
     <<"s1", "disk", Join(WX, WTemperature), 60>>,
     <<"s1", "disk", Join(WX, WSmartStatus), 0>>,
     <<"a", "disk", Join(<<"b">>, Join(<<"c">>, WTemperature)), 50>>,
     <<"a_b", "disk", Join(<<"c">>, WTemperature), 50>>,
     <<"s1", "replication", Join(<<"r">>, WLastRun), 0>>,
     <<"s1", "replication", Join(<<"r">>, WStatus), 0>>,
     <<"s1", "pool_health", Join(<<"p">>, WState), 0>>,
     <<"s1", "pool", Join(<<"p">>, WTotal), 10>>,
     <<"s1", "pool", Join(<<"p">>, WUsed), 9>>}

SummaryMetricData ==
    {[system_id |-> rd[1], metric_type |-> rd[2], metric_name |-> rd[3],
      value |-> rd[4], unit |-> "NULL", metadata |-> <<>>] : rd \in SummaryReadings}

SummaryPayloads ==
    {[system |-> SystemInfoOf(m[1].system_id), metrics |-> m, alerts |-> <<>>] :
        m \in SeqsUpTo(SummaryMetricData, MaxBatch) \ {<<>>}}

NextSummary ==
    \/ Tick(SummaryInstants)
    \/ \E p \in SummaryPayloads : ReceiveMetrics(p)
    \/ GetDisksSummary
    \/ GetReplicationSummary
    \/ GetPoolsSummary
    \/ GetAllDisks
    \/ GetAllReplication
    \/ GetAllPools
    \/ \E sy \in SummarySystems : GetSystemDisks(sy, FleetWindowHours)
    \/ \E sy \in SummarySystems : GetSystemReplication(sy, FleetWindowHours)
    \/ \E sy \in SummarySystems : GetSystemPools(sy)

SpecSummary == Init /\ [][NextSummary]_vars

(***************************************************************************)
(* Staleness: one replication task and one pool of one system, reporting   *)
(* run and scrub times 30 hours and 8 days before the later instants.      *)
(***************************************************************************)
StaleInstants == {108000, 700000}
StaleReadings ==
    {<<"s1", "replication", Join(<<"r">>, WStatus), 0>>,
     <<"s1", "replication", Join(<<"r">>, WStatus), 2>>,
     <<"s1", "replication", Join(<<"r">>, WLastRun), 0>>,
     <<"s1", "replication", Join(<<"r">>, WLastRun), 100000>>,
     <<"s1", "pool_health", Join(<<"p">>, WScrubLast), 0>>,
     <<"s1", "pool_health", Join(<<"p">>, WScrubLast), 650000>>}

StaleMetricData ==
    {[system_id |-> rd[1], metric_type |-> rd[2], metric_name |-> rd[3],
      value |-> rd[4], unit |-> "NULL", metadata |-> <<>>] : rd \in StaleReadings}

StalePayloads ==
    {[system |-> SystemInfoOf(m[1].system_id), metrics |-> m, alerts |-> <<>>] :
        m \in SeqsUpTo(StaleMetricData, MaxBatch) \ {<<>>}}

NextStale ==
    \/ Tick(StaleInstants)
    \/ \E p \in StalePayloads : ReceiveMetrics(p)
    \/ GetReplicationSummary
    \/ GetPoolsSummary

SpecStale == Init /\ [][NextStale]_vars

(***************************************************************************)
(* Capacity: the used and total space of one pool, and a further attribute *)
(* of the pool whose name ends in 'used', within and outside the last hour.*)
(***************************************************************************)
CapacityInstants == {7200}
CapacityReadings ==
    {<<"s1", "pool", Join(<<"p">>, WUsed), 5200>>,
     <<"s1", "pool", Join(<<"p">>, WUsed), 7000>>,
     <<"s1", "pool", Join(<<"p">>, WTotal), 8000>>,
     <<"s1", "pool", Join(<<"p">>, WTotal), 0>>,
     <<"s1", "pool", Join(<<"p">>, Join(WX, WUsed)), 1>>}

CapacityMetricData ==
    {[system_id |-> rd[1], metric_type |-> rd[2], metric_name |-> rd[3],
      value |-> rd[4], unit |-> "NULL", metadata |-> <<>>] : rd \in CapacityReadings}

CapacityPayloads ==
    {[system |-> SystemInfoOf(m[1].system_id), metrics |-> m, alerts |-> <<>>] :
        m \in SeqsUpTo(CapacityMetricData, MaxBatch) \ {<<>>}}

NextCapacity ==
    \/ Tick(CapacityInstants)
    \/ \E p \in CapacityPayloads : ReceiveWithin(p, MaxCapacityRows)
    \/ GetPoolsSummary
    \/ GetSystemPools("s1")

SpecCapacity == Init /\ [][NextCapacity]_vars

(***************************************************************************)
(* Resource kinds: rows of the four known kinds and rows of another kind   *)
(* that carry the same system id and the same raw names.                   *)
(***************************************************************************)
KindInstants == {700000}
KindReadings ==
    {<<"s1", "replication", Join(<<"r">>, WLastRun), 0>>,
     <<"s1", "pool_health", Join(<<"p">>, WScrubLast), 0>>,
     <<"s1", "pool", Join(<<"p">>, WUsed), 9>>,
     <<"s1", "pool", Join(<<"p">>, WTotal), 10>>,
     <<"s1", "disk", Join(WX, WTemperature), 50>>,
     <<"s1", "custom", Join(<<"r">>, WLastRun), 1>>,
     <<"s1", "custom", Join(<<"p">>, WScrubLast), 1>>,
     <<"s1", "custom", Join(<<"p">>, WUsed), 1>>,
     <<"s1", "custom", Join(WX, WTemperature), 90>>,
     <<"s1", "custom", WX, 1>>}

KindMetricData ==
    {[system_id |-> rd[1], metric_type |-> rd[2], metric_name |-> rd[3],
      value |-> rd[4], unit |-> "NULL", metadata |-> <<>>] : rd \in KindReadings}

KindPayloads ==
    {[system |-> SystemInfoOf(m[1].system_id), metrics |-> m, alerts |-> <<>>] :
        m \in SeqsUpTo(KindMetricData, MaxBatch) \ {<<>>}}

NextKinds ==
    \/ Tick(KindInstants)
    \/ \E p \in KindPayloads : ReceiveWithin(p, MaxCapacityRows)
    \/ GetDisksSummary
    \/ GetReplicationSummary
    \/ GetPoolsSummary

SpecKinds == Init /\ [][NextKinds]_vars

(***************************************************************************)
(* Thresholds: for each rule of the summaries, a value that meets the      *)
(* threshold and one that does not, reported half an hour apart.           *)
(***************************************************************************)
ThresholdInstants == {1800}
ThresholdReadings ==
    {<<"s1", "disk", Join(WX, WTemperature), 60>>,
     <<"s1", "disk", Join(WX, WTemperature), 40>>,
     <<"s1", "disk", Join(WX, WSmartStatus), 0>>,
     <<"s1", "disk", Join(WX, WSmartStatus), 1>>,
     <<"s1", "replication", Join(<<"r">>, WStatus), 0>>,
     <<"s1", "replication", Join(<<"r">>, WStatus), 2>>,
     <<"s1", "pool_health", Join(<<"p">>, WState), 0>>,
     <<"s1", "pool_health", Join(<<"p">>, WState), 1>>,
     <<"s1", "pool_health", Join(<<"p">>, WResilverStatus), 1>>,
     <<"s1", "pool_health", Join(<<"p">>, WResilverStatus), 0>>}

ThresholdMetricData ==
    {[system_id |-> rd[1], metric_type |-> rd[2], metric_name |-> rd[3],
      value |-> rd[4], unit |-> "NULL", metadata |-> <<>>] : rd \in ThresholdReadings}

ThresholdPayloads ==
    {[system |-> SystemInfoOf(m[1].system_id), metrics |-> m, alerts |-> <<>>] :
        m \in SeqsUpTo(ThresholdMetricData, MaxBatch) \ {<<>>}}

NextThreshold ==
    \/ Tick(ThresholdInstants)
    \/ \E p \in ThresholdPayloads : ReceiveMetrics(p)
    \/ GetDisksSummary
    \/ GetReplicationSummary
    \/ GetPoolsSummary
    \/ GetSystemPools("s1")

SpecThreshold == Init /\ [][NextThreshold]_vars

(***************************************************************************)
(* A disk summary read statement by statement while webhook requests that  *)
(* report a hot disk are in flight.                                        *)
(***************************************************************************)
TornMetricData ==
    {[system_id |-> "s1", metric_type |-> "disk", metric_name |-> Join(WX, WTemperature),
      value |-> 60, unit |-> "NULL", metadata |-> <<>>]}

TornPayloads ==
    {[system |-> SystemInfoOf("s1"), metrics |-> m, alerts |-> <<>>] :
        m \in SeqsUpTo(TornMetricData, MaxBatch) \ {<<>>}}

NextTorn ==
    \/ \E w \in Workers, p \in TornPayloads : BeginIngest(w, p)
    \/ \E w \in Workers : UpsertStep(w)
    \/ \E w \in Workers : InsertMetricStep(w)
    \/ \E w \in Workers : InsertAlertStep(w)
    \/ \E w \in Workers : CommitStep(w)
    \/ ReadTotalDisks
    \/ ReadTempWarnings
    \/ ReadTempCritical
    \/ ReadSmartFailures
    \/ ReadAvgTemperature
    \/ ReadHottestDisk

SpecTorn == Init /\ [][NextTorn]_vars

(***************************************************************************)
(* Payloads whose metric and alert rows name a system of their own: the    *)
(* system_id of a MetricData or AlertData is a field apart from system.id. *)
(***************************************************************************)
ForeignMetricData ==
    {[system_id |-> sy, metric_type |-> "disk", metric_name |-> Join(WX, WTemperature),
      value |-> 50, unit |-> "NULL", metadata |-> <<>>] : sy \in SystemIds}

ForeignPayloads ==
    {[system |-> SystemInfoOf(sy), metrics |-> m, alerts |-> a] :
        sy \in SystemIds,
        m \in SeqsUpTo(ForeignMetricData, MaxBatch),
        a \in SeqsUpTo(AlertDataSet, MaxBatch)}

NextForeign ==
    \/ \E p \in ForeignPayloads : ReceiveMetrics(p)
    \/ GetAllDisks
    \/ GetDisksSummary
    \/ GetAlerts("NULL")

SpecForeign == Init /\ [][NextForeign]_vars

(***************************************************************************)
(* User management by two administrators whose requests are in flight      *)
(* together: the seeded administrator and one it creates.                  *)
(***************************************************************************)
AdminCallers == {AdminEmail, "op@truenas-mon.local"}
AdminUserIds == 1..Cardinality(AdminCallers)
AdminUserCreate ==
    [email : {"op@truenas-mon.local"}, full_name : {"NULL"}, role : {"admin", "viewer"}]
AdminUserUpdate ==
    [full_name : {"NULL"}, role : {"NULL", "admin", "viewer"}, is_active : {"NULL", "true", "false"}]

NextAdmins ==
    \/ \E w \in Workers, c \in AdminCallers : AuthorizeUserRequest(w, c)
    \/ \E w \in Workers, d \in AdminUserCreate : CreateUserBody(w, d)
    \/ \E w \in Workers, id \in AdminUserIds, d \in AdminUserUpdate : UpdateUserBody(w, id, d)
    \/ \E w \in Workers, id \in AdminUserIds : DeleteUserBody(w, id)

SpecAdmins == Init /\ [][NextAdmins]_vars

(***************************************************************************)
(* Decoding: raw names without, with one and with two underscores, the     *)
(* empty name and names that begin or end with an underscore, in the       *)
(* per-system and the fleet-wide views of one system.                      *)
(***************************************************************************)
DecodeNames ==
    {<<>>, WX, <<Underscore>> \o WX, WX \o <<Underscore>>,
     Join(WX, Join(<<"a">>, <<"b">>))}
DecodeKinds == {"disk", "replication", "pool"}

DecodeMetricData ==
    {[system_id |-> "s1", metric_type |-> k, metric_name |-> n, value |-> 1,
      unit |-> "NULL", metadata |-> <<>>] : k \in DecodeKinds, n \in DecodeNames}

DecodePayloads ==
    {[system |-> SystemInfoOf("s1"), metrics |-> m, alerts |-> <<>>] :
        m \in SeqsUpTo(DecodeMetricData, MaxBatch) \ {<<>>}}

NextDecode ==
    \/ \E p \in DecodePayloads : ReceiveMetrics(p)
    \/ GetSystemDisks("s1", FleetWindowHours)
    \/ GetSystemReplication("s1", FleetWindowHours)
    \/ GetSystemPools("s1")
    \/ GetAllDisks
    \/ GetAllReplication
    \/ GetAllPools

SpecDecode == Init /\ [][NextDecode]_vars

(***************************************************************************)
(* System rows: requests of two systems under changing names, in flight    *)
(* together while the clock advances.                                      *)
(***************************************************************************)
SystemInstants == {3600}
SystemNames == {"n1", "n2"}
SystemPayloads ==
    {[system |-> [id |-> id, name |-> n, hostname |-> "NULL", version |-> "NULL",
                  client_name |-> "NULL"],
      metrics |-> <<>>, alerts |-> <<>>] : id \in SystemIds, n \in SystemNames}

NextSystems ==
    \/ Tick(SystemInstants)
    \/ \E w \in Workers, p \in SystemPayloads : BeginIngest(w, p)
    \/ \E w \in Workers : UpsertStep(w)
    \/ \E w \in Workers : InsertMetricStep(w)
    \/ \E w \in Workers : InsertAlertStep(w)
    \/ \E w \in Workers : CommitStep(w)
    \/ \E w \in Workers : FailStep(w)

SpecSystems == Init /\ [][NextSystems]_vars

\* one request at a time
NextSystemsInTurn ==
    \/ Tick(SystemInstants)
    \/ \E p \in SystemPayloads : ReceiveMetrics(p)

SpecSystemsInTurn == Init /\ [][NextSystemsInTurn]_vars

(***************************************************************************)
(* Reading a per-system view.                                              *)
(***************************************************************************)
ViewOps == {"get_system_disks", "get_system_replication", "get_system_pools"}
WindowedOps == ViewOps \cup {"get_system_metrics"}

ViewKinds(op) ==
    CASE op = "get_system_disks" -> {"disk"}
      [] op = "get_system_replication" -> {"replication"}
      [] op = "get_system_pools" -> {"pool", "pool_health"}

ViewMode(op) == IF op = "get_system_pools" THEN "first" ELSE "last"

HasEntry(body, key) ==
    \E i \in 1..Len(body) :
        body[i].entity_id = key[1] /\ key[2] \in DOMAIN body[i].metrics

EntryOf(body, key) == body[IndexOf(body, key[1])].metrics[key[2]]

\* the row that is greatest under (timestamp, insertion id)
MaxRow(S) ==
    CHOOSE m \in S : \A o \in S :
        \/ o.timestamp < m.timestamp
        \/ o.timestamp = m.timestamp /\ o.id <= m.id

SamePair(mode, S, key) == {o \in S : Decode(mode, o.metric_name) = key}

Range(f) == {f[i] : i \in DOMAIN f}

ViewPoints(body) ==
    UNION {{<<body[i].entity_id, pt>> : pt \in Range(body[i].history)} :
        i \in 1..Len(body)}

RowPoint(mode, m) ==
    <<Decode(mode, m.metric_name)[1],
      [attribute |-> Decode(mode, m.metric_name)[2], value |-> m.value,
       timestamp |-> m.timestamp]>>

\* the rows of the queried system and kind, whatever their age
Candidates ==
    IF resp.op = "get_system_metrics"
    THEN {m \in Rows(metrics) :
            /\ m.system_id = resp.system_id
            /\ resp.metric_type # "NULL" => m.metric_type = resp.metric_type}
    ELSE {m \in Rows(metrics) :
            /\ m.system_id = resp.system_id
            /\ m.metric_type \in ViewKinds(resp.op)}

Returned(m) ==
    IF resp.op = "get_system_metrics"
    THEN m \in Range(resp.body)
    ELSE RowPoint(ViewMode(resp.op), m) \in ViewPoints(resp.body)

(***************************************************************************)
(* C1: in every per-system view, for every decoded (entity, attribute)     *)
(* pair with rows of the system and kind in the window, the 'metrics'      *)
(* entry of the pair is the row that is greatest under (timestamp,         *)
(* insertion id) among those rows.                                         *)
(***************************************************************************)
C1_LatestIsMaximal ==
    resp.op \in ViewOps =>
        LET mode == ViewMode(resp.op)
            S == SelectSystemKind(metrics, resp.system_id, ViewKinds(resp.op),
                                  now, resp.hours)
        IN  \A m \in S :
                LET key == Decode(mode, m.metric_name)
                IN  /\ HasEntry(resp.body, key)
                    /\ EntryOf(resp.body, key) = LatestEntry(MaxRow(SamePair(mode, S, key)))

(***************************************************************************)
(* C2: when one more point is ingested for a pair that already has a       *)
(* latest value in a view, a point earlier than that latest leaves the     *)
(* view's value unchanged and a point later than it becomes the view's     *)
(* value.                                                                  *)
(***************************************************************************)
ViewSpecs ==
    {[op |-> op, hours |-> h] : op \in {"get_system_disks", "get_system_replication"},
                                h \in ProjHours}
    \cup {[op |-> "get_system_pools", hours |-> PoolWindowHours]}

ViewOf(table, system_id, v) ==
    SystemView(table, system_id, ViewKinds(v.op), ViewMode(v.op), now, v.hours)

C2_OnePointMore(new, v) ==
    LET key == Decode(ViewMode(v.op), new.metric_name)
    IN  \A before \in ViewOf(metrics, new.system_id, v) :
            HasEntry(before, key) =>
                LET latest == EntryOf(before, key)
                IN  \A after \in ViewOf(metrics', new.system_id, v) :
                        /\ new.timestamp < latest.timestamp =>
                               EntryOf(after, key) = latest
                        /\ new.timestamp > latest.timestamp =>
                               EntryOf(after, key) = LatestEntry(new)

C2_EarlierKeepsLaterReplaces ==
    [][Len(metrics') = Len(metrics) + 1 =>
         LET new == metrics'[Len(metrics')]
         IN  \A v \in ViewSpecs :
                (/\ new.metric_type \in ViewKinds(v.op)
                 /\ InWindow(new.timestamp, now, v.hours))
                    => C2_OnePointMore(new, v)]_vars

(***************************************************************************)
(* What the disk summary shows of the rows of its two windows: the number  *)
(* of disks counted over 24 h, and whether a hottest disk was found in the *)
(* last hour.                                                              *)
(***************************************************************************)
DiskKeys(S) == {SystemKey(m.system_id, FirstSegment(m.metric_name)) : m \in S}
AllDiskRows == {m \in Rows(metrics) : m.metric_type = "disk"}
AllTemperatureRows == TemperatureRows(AllDiskRows)

C3_SummaryHourBoundary ==
    /\ resp.op = "get_disks_summary"
    /\ \E m \in AllTemperatureRows : m.timestamp = now - 3600
    /\ resp.body.hottest_disk = <<>>
    /\ resp.body.total_disks = 1

C3_SummaryDayBoundary ==
    /\ resp.op = "get_disks_summary"
    /\ AllDiskRows # {}
    /\ \A m \in AllDiskRows : m.timestamp = now - 24 * 3600
    /\ resp.body.total_disks = 0

(***************************************************************************)
(* Reading the alert log.                                                  *)
(***************************************************************************)
AlertIdsOf(table) == {table[i].id : i \in 1..Len(table)}
AlertById(table, id) == table[CHOOSE i \in 1..Len(table) : table[i].id = id]

(***************************************************************************)
(* C7: acknowledging a known alert that is already acknowledged succeeds   *)
(* and leaves the alert log as it was.                                     *)
(***************************************************************************)
C7_ReacknowledgeIsNoOp ==
    [][(/\ resp'.op = "acknowledge_alert"
        /\ resp'.alert_id \in AlertIdsOf(alerts)
        /\ AlertById(alerts, resp'.alert_id).acknowledged)
          => (resp'.code = 200 /\ alerts' = alerts)]_vars

\* a ticketed alert was acknowledged by create_ticket before this acknowledge
C7_Witness ==
    /\ resp.op = "acknowledge_alert"
    /\ resp.code = 200
    /\ AlertById(alerts, resp.alert_id).ticket_id # NoTicket

(***************************************************************************)
(* C8: acknowledge with an id that no alert row carries answers 404        *)
(* (not found) and leaves every alert row unchanged.                       *)
(***************************************************************************)
C8_AcknowledgeUnknownNotFound ==
    [][(/\ resp'.op = "acknowledge_alert"
        /\ resp'.alert_id \notin AlertIdsOf(alerts))
          => (resp'.code = 404 /\ alerts' = alerts)]_vars

C8_Witness ==
    /\ resp.op = "acknowledge_alert"
    /\ resp.code = 404
    /\ resp.alert_id \notin AlertIdsOf(alerts)
    /\ \E i \in 1..Len(alerts) : ~alerts[i].acknowledged

(***************************************************************************)
(* C9: create_ticket with an id that no alert row carries answers 404      *)
(* (not found), returns no ticket id, and leaves every alert row           *)
(* unchanged.                                                              *)
(***************************************************************************)
C9_TicketUnknownNotFound ==
    [][(/\ resp'.op = "create_ticket"
        /\ resp'.alert_id \notin AlertIdsOf(alerts))
          => (/\ resp'.code = 404
              /\ "ticket_id" \notin DOMAIN resp'
              /\ alerts' = alerts)]_vars

(***************************************************************************)
(* C10: create_ticket on a known alert stores the ticket id of this call   *)
(* in the alert and leaves it acknowledged, whatever the alert's           *)
(* acknowledged flag and ticket id were before.                            *)
(***************************************************************************)
ExpectedTicketId(psa, alert_id) ==
    <<IF psa = "autotask" THEN "AUTOTASK" ELSE "HALO", alert_id, "001">>

C10_TicketLastWriteWins ==
    [][(/\ resp'.op = "create_ticket"
        /\ resp'.alert_id \in AlertIdsOf(alerts))
          => (/\ resp'.code = 200
              /\ resp'.ticket_id = ExpectedTicketId(resp'.psa, resp'.alert_id)
              /\ AlertById(alerts', resp'.alert_id).ticket_id = resp'.ticket_id
              /\ AlertById(alerts', resp'.alert_id).acknowledged)]_vars

\* two tickets of different PSAs on alerts of one log: the later call's id stands
C10_Witness ==
    /\ resp.op = "create_ticket"
    /\ resp.alert_id \in AlertIdsOf(alerts)
    /\ AlertById(alerts, resp.alert_id).ticket_id = resp.ticket_id
    /\ AlertById(alerts, resp.alert_id).acknowledged
    /\ resp.psa = "autotask"
    /\ \E i \in 1..Len(alerts) : alerts[i].ticket_id # NoTicket /\ alerts[i].ticket_id[1] = "HALO"

(***************************************************************************)
(* C4: the metric log is append-only. Every step of the program keeps the  *)
(* rows already stored, unchanged and in place, and every row it adds has  *)
(* an id greater than the id of every row before it.                       *)
(***************************************************************************)
C4_MetricLogAppendOnly ==
    [][/\ Len(metrics') >= Len(metrics)
       /\ SubSeq(metrics', 1, Len(metrics)) = metrics
       /\ \A i \in Len(metrics) + 1..Len(metrics') :
              \A j \in 1..i - 1 : metrics'[j].id < metrics'[i].id]_vars

C4_Witness ==
    /\ Len(metrics) >= 2
    /\ metrics[1].id < metrics[2].id
    /\ \E i \in 1..Len(alerts) : alerts[i].ticket_id # NoTicket
    /\ resp.op = "update_user"
    /\ resp.code = 200

(***************************************************************************)
(* C6: an acknowledged alert stays acknowledged in every later state,      *)
(* whatever the program does next.                                         *)
(***************************************************************************)
C6_AcknowledgedIsMonotonic ==
    [][\A i \in 1..Len(alerts) :
          alerts[i].acknowledged =>
              /\ i <= Len(alerts')
              /\ alerts'[i].id = alerts[i].id
              /\ alerts'[i].acknowledged]_vars

\* an acknowledged alert, an ingest after it, and a second acknowledge of it
C6_Witness ==
    /\ Len(alerts) >= 2
    /\ alerts[1].acknowledged
    /\ ~alerts[2].acknowledged
    /\ alerts[2].id > alerts[1].id
    /\ resp.op = "acknowledge_alert"
    /\ resp.alert_id = alerts[1].id

(***************************************************************************)
(* C5: ingestion of a batch is atomic. Whenever the tables that requests   *)
(* read (systems, metrics, alerts) change, the change is one whole batch   *)
(* of one request in flight: its system row, all its metric rows and all   *)
(* its alert rows, appended in order to what was there; a request that     *)
(* ends in failure changes nothing, and a request that ends in success has *)
(* recorded its whole batch.                                               *)
(***************************************************************************)
MetricRowIs(row, m) ==
    /\ row.system_id = m.system_id
    /\ row.metric_type = m.metric_type
    /\ row.metric_name = m.metric_name
    /\ row.value = m.value
    /\ row.unit = m.unit

AlertRowIs(row, a) ==
    /\ row.system_id = a.system_id
    /\ row.severity = a.severity
    /\ row.message = a.message
    /\ ~row.acknowledged

WholeBatch(w) ==
    LET p == ingest[w].payload
    IN  /\ ingest[w].pc # "idle"
        /\ Len(metrics') = Len(metrics) + Len(p.metrics)
        /\ SubSeq(metrics', 1, Len(metrics)) = metrics
        /\ \A i \in 1..Len(p.metrics) :
               MetricRowIs(metrics'[Len(metrics) + i], p.metrics[i])
        /\ Len(alerts') = Len(alerts) + Len(p.alerts)
        /\ SubSeq(alerts', 1, Len(alerts)) = alerts
        /\ \A i \in 1..Len(p.alerts) :
               AlertRowIs(alerts'[Len(alerts) + i], p.alerts[i])
        /\ DOMAIN systems' = DOMAIN systems \cup {p.system.id}
        /\ systems'[p.system.id].name = p.system.name
        /\ \A s \in DOMAIN systems \ {p.system.id} : systems'[s] = systems[s]

C5_BatchIsAtomic ==
    [][/\ <<systems, metrics, alerts>>' # <<systems, metrics, alerts>>
          => \E w \in Workers : WholeBatch(w)
       /\ \A w \in Workers :
            (ingest[w].pc # "idle" /\ ingest'[w].pc = "idle")
               => IF resp'.code = 200
                  THEN WholeBatch(w)
                  ELSE <<systems, metrics, alerts>>' = <<systems, metrics, alerts>>]_vars

\* a request has just failed on the lock while another holds rows not yet
\* committed, after an earlier batch was recorded
C5_Witness ==
    /\ resp.op = "receive_metrics"
    /\ resp.code = 500
    /\ Len(metrics) >= 1
    /\ \E w \in Workers :
          /\ writer = w
          /\ Len(ingest[w].tx.metrics) > Len(metrics)
          /\ Len(ingest[w].payload.alerts) > 0
          /\ ingest[w].pc = "alerts"
          /\ ingest[w].k = 0

(***************************************************************************)
(* Reading a fleet summary.                                                *)
(***************************************************************************)
SummaryOps == {"get_disks_summary", "get_replication_summary", "get_pools_summary"}

HealthyCount ==
    CASE resp.op = "get_disks_summary" -> resp.body.healthy_disks
      [] resp.op = "get_replication_summary" -> resp.body.healthy_tasks
      [] resp.op = "get_pools_summary" -> resp.body.healthy_pools

(***************************************************************************)
(* C11: the healthy count reported by every fleet summary (healthy_disks,  *)
(* healthy_tasks, healthy_pools) is never negative.                        *)
(***************************************************************************)
C11_HealthyNeverNegative == resp.op \in SummaryOps => HealthyCount >= 0

\* the replication and the pool summary alone
C11_ClampedSummaries ==
    resp.op \in {"get_replication_summary", "get_pools_summary"} => HealthyCount >= 0

\* a stale task without a status row: 0 - 0 - 1 is reported as 0
C11_ClampActs ==
    /\ resp.op = "get_replication_summary"
    /\ resp.body.total_tasks < resp.body.failed_tasks + resp.body.stale_tasks
    /\ resp.body.healthy_tasks = 0

(***************************************************************************)
(* The counters of the fleet summaries as rules over a metric log, and the *)
(* log of a group of systems alone.  A counter is a set of possible values *)
(* (capacity warnings depend on the order of equal timestamps).            *)
(***************************************************************************)
SummaryCounters ==
    {"total_disks", "warnings", "critical", "smart_failures",
     "total_tasks", "failed_tasks", "stale_tasks",
     "total_pools", "degraded_pools", "needs_scrub", "active_resilvers",
     "capacity_warnings"}

CountersOf(op) ==
    CASE op = "get_disks_summary" ->
            {"total_disks", "warnings", "critical", "smart_failures"}
      [] op = "get_replication_summary" ->
            {"total_tasks", "failed_tasks", "stale_tasks"}
      [] op = "get_pools_summary" ->
            {"total_pools", "degraded_pools", "needs_scrub", "active_resilvers",
             "capacity_warnings"}

CounterValues(c, table, t) ==
    CASE c = "total_disks" -> {TotalDisks(table, t)}
      [] c = "warnings" -> {TempOver(table, t, TempWarning)}
      [] c = "critical" -> {TempOver(table, t, TempCritical) + SmartFailures(table, t)}
      [] c = "smart_failures" -> {SmartFailures(table, t)}
      [] c = "total_tasks" -> {TotalTasks(table, t)}
      [] c = "failed_tasks" -> {FailedTasks(table, t)}
      [] c = "stale_tasks" -> {StaleTasks(table, t)}
      [] c = "total_pools" -> {TotalPools(table, t)}
      [] c = "degraded_pools" -> {DegradedPools(table, t)}
      [] c = "needs_scrub" -> {NeedsScrub(table, t)}
      [] c = "active_resilvers" -> {ActiveResilvers(table, t)}
      [] c = "capacity_warnings" -> CapacityWarnings(table, t)

RowsOfGroup(table, group) == SelectSeq(table, LAMBDA m : m.system_id \in group)

Partitions(S) ==
    {P \in SUBSET (SUBSET S \ {{}}) :
        /\ UNION P = S
        /\ \A g, h \in P : g # h => g \cap h = {}}

\* the sums of one value per group
RECURSIVE GroupSums(_, _, _, _)
GroupSums(c, P, table, t) ==
    IF P = {} THEN {0}
    ELSE LET g == CHOOSE x \in P : TRUE
         IN  {v + w : v \in CounterValues(c, RowsOfGroup(table, g), t),
                      w \in GroupSums(c, P \ {g}, table, t)}

(***************************************************************************)
(* C12: every counter of a fleet summary equals, for every partition of    *)
(* the systems into groups, the sum of the values the same rule gives on   *)
(* the rows of each group alone.                                           *)
(***************************************************************************)
C12_CountersAddOverGroups ==
    resp.op \in SummaryOps =>
        \A c \in CountersOf(resp.op), P \in Partitions(SummarySystems) :
            resp.body[c] \in GroupSums(c, P, metrics, now)

\* the counters keyed by system and first segment or stem: these add up
C12_SegmentCountersAdd ==
    resp.op \in SummaryOps =>
        \A c \in CountersOf(resp.op) \cap {"total_disks", "total_pools"},
           P \in Partitions(SummarySystems) :
            resp.body[c] \in GroupSums(c, P, metrics, now)

(***************************************************************************)
(* Reading a detail view: the number of entities it returns.               *)
(***************************************************************************)
RECURSIVE FleetEntityCount(_)
FleetEntityCount(body) ==
    IF body = <<>> THEN 0
    ELSE Len(Head(body).entities) + FleetEntityCount(Tail(body))

\* the total the summary of the same instant reports, for the kind of a view
SummaryTotal(op, table) ==
    CASE op \in {"get_all_disks", "get_system_disks"} -> TotalDisks(table, now)
      [] op \in {"get_all_replication", "get_system_replication"} ->
            TotalTasks(table, now)
      [] op \in {"get_all_pools", "get_system_pools"} -> TotalPools(table, now)

FleetOps == {"get_all_disks", "get_all_replication", "get_all_pools"}

(***************************************************************************)
(* C13: over the same 24 h window the summary total (total_disks,          *)
(* total_tasks, total_pools) equals the number of (system, entity) pairs   *)
(* the detail views of the kind return: fleet-wide for get_all_*, and for  *)
(* the rows of one system for get_system_* with hours = 24.                *)
(***************************************************************************)
C13_SummaryMatchesDetail ==
    /\ resp.op \in FleetOps =>
          FleetEntityCount(resp.body) = SummaryTotal(resp.op, metrics)
    /\ (resp.op \in ViewOps /\ resp.hours = 24) =>
          Len(resp.body) =
              SummaryTotal(resp.op, RowsOfGroup(metrics, {resp.system_id}))

\* the disk case of C13: one disk with a temperature and a SMART status
C13_DiskDetailOnly ==
    resp.op = "get_all_disks" =>
        FleetEntityCount(resp.body) = SummaryTotal(resp.op, metrics)

(***************************************************************************)
(* Reading the disk summary: the disks (system and raw name) with a        *)
(* temperature point above a limit in the last hour.                       *)
(***************************************************************************)
HotDisks(limit) ==
    {<<m.system_id, m.metric_name>> :
        m \in {r \in AllTemperatureRows :
                  r.timestamp > now - 3600 /\ r.value > limit}}

(***************************************************************************)
(* C20: in the disk summary healthy_disks = total_disks - temperature      *)
(* warnings - SMART failures, the temperature-critical count (critical     *)
(* less SMART failures) never exceeds the warnings, and a disk with a      *)
(* point above 55 in the last hour is counted in both.                     *)
(***************************************************************************)
C20_CriticalIsAlsoWarning ==
    resp.op = "get_disks_summary" =>
        /\ resp.body.healthy_disks =
              resp.body.total_disks - resp.body.warnings - resp.body.smart_failures
        /\ resp.body.critical - resp.body.smart_failures <= resp.body.warnings
        /\ HotDisks(55) # {} =>
              /\ resp.body.warnings >= 1
              /\ resp.body.critical - resp.body.smart_failures >= 1
        /\ \A sy \in SummarySystems :
              LET mine(S) == {d \in S : d[1] = sy}
                  rows == RowsOfGroup(metrics, {sy})
              IN  /\ TempOver(rows, now, 45) = Cardinality(mine(HotDisks(45)))
                  /\ TempOver(rows, now, 55) = Cardinality(mine(HotDisks(55)))

C20_Witness ==
    /\ resp.op = "get_disks_summary"
    /\ HotDisks(55) # {}
    /\ resp.body.smart_failures = 0
    /\ resp.body.warnings = 1
    /\ resp.body.critical = 1
    /\ resp.body.total_disks = 1
    /\ resp.body.healthy_disks = 0

(***************************************************************************)
(* Reading the latest map and the history of a per-system view together.   *)
(***************************************************************************)
\* the in-window rows of the queried system and kind
ViewRows ==
    SelectSystemKind(metrics, resp.system_id, ViewKinds(resp.op), now, resp.hours)

EntityRows(entity) ==
    {m \in ViewRows : Decode(ViewMode(resp.op), m.metric_name)[1] = entity}

RowsOfPoint(entity, pt) ==
    {m \in EntityRows(entity) : RowPoint(ViewMode(resp.op), m) = <<entity, pt>>}

Occurrences(history, pt) == {k \in 1..Len(history) : history[k] = pt}

\* every in-window row is once in the history of one entity, nothing else is
C14_HistoryHoldsEveryRowOnce ==
    resp.op \in ViewOps =>
        /\ \A i, j \in 1..Len(resp.body) :
              i # j => resp.body[i].entity_id # resp.body[j].entity_id
        /\ \A m \in ViewRows :
              \E i \in 1..Len(resp.body) :
                  resp.body[i].entity_id = Decode(ViewMode(resp.op), m.metric_name)[1]
        /\ \A i \in 1..Len(resp.body) :
              LET e == resp.body[i]
              IN  /\ Len(e.history) = Cardinality(EntityRows(e.entity_id))
                  /\ \A pt \in Range(e.history) :
                        Cardinality(Occurrences(e.history, pt)) =
                            Cardinality(RowsOfPoint(e.entity_id, pt))

\* the attributes of the latest map are those of the history
C14_SameAttributes ==
    resp.op \in ViewOps =>
        \A i \in 1..Len(resp.body) :
            DOMAIN resp.body[i].metrics =
                {pt.attribute : pt \in Range(resp.body[i].history)}

\* each latest entry is the greatest row of its attribute
C14_LatestIsGreatestPoint ==
    resp.op \in ViewOps =>
        \A i \in 1..Len(resp.body) :
            \A a \in DOMAIN resp.body[i].metrics :
                LET top == MaxRow({m \in EntityRows(resp.body[i].entity_id) :
                                      Decode(ViewMode(resp.op), m.metric_name)[2] = a})
                IN  /\ resp.body[i].metrics[a].value = top.value
                    /\ resp.body[i].metrics[a].timestamp = top.timestamp

(***************************************************************************)
(* C14: in each per-system view every in-window row of the system and kind *)
(* appears exactly once in the history of exactly one entity, the          *)
(* attributes of an entity's latest map are those occurring in its         *)
(* history, and each latest entry equals the point of its attribute with   *)
(* the greatest (timestamp, insertion id).                                 *)
(***************************************************************************)
C14_LatestAgreesWithHistory ==
    /\ C14_HistoryHoldsEveryRowOnce
    /\ C14_SameAttributes
    /\ C14_LatestIsGreatestPoint

C14_SameRowsSamePass == C14_HistoryHoldsEveryRowOnce /\ C14_SameAttributes

\* the rows of a set from the greatest (timestamp, insertion id) down
RECURSIVE NewestFirst(_)
NewestFirst(S) ==
    IF S = {} THEN <<>>
    ELSE <<MaxRow(S)>> \o NewestFirst(S \ {MaxRow(S)})

(***************************************************************************)
(* C15: the history of each entity of a per-system view is ordered by      *)
(* descending timestamp across all attributes of the entity, points of     *)
(* equal timestamp by descending insertion id.                             *)
(***************************************************************************)
C15_HistoryNewestFirst ==
    resp.op \in ViewOps =>
        \A i \in 1..Len(resp.body) :
            LET rows == NewestFirst(EntityRows(resp.body[i].entity_id))
            IN  resp.body[i].history =
                    [k \in 1..Len(rows) |->
                        HistoryPoint(rows[k],
                                     Decode(ViewMode(resp.op), rows[k].metric_name)[2])]

\* within one raw name the history does descend in time
C15_DescendsWithinName ==
    resp.op \in ViewOps =>
        \A i \in 1..Len(resp.body) :
            \A k, l \in 1..Len(resp.body[i].history) :
                (/\ k < l
                 /\ resp.body[i].history[k].attribute = resp.body[i].history[l].attribute
                 /\ Cardinality({m.metric_name : m \in EntityRows(resp.body[i].entity_id)}) = 1)
                    => resp.body[i].history[k].timestamp >= resp.body[i].history[l].timestamp

(***************************************************************************)
(* Reading the entities and attributes a view shows, and the rows it was   *)
(* built from.                                                             *)
(***************************************************************************)
LastSplitOps ==
    {"get_system_disks", "get_system_replication", "get_all_disks",
     "get_all_replication"}
FirstSplitOps == {"get_system_pools", "get_all_pools"}

OpKinds(op) ==
    CASE op \in {"get_system_disks", "get_all_disks"} -> {"disk"}
      [] op \in {"get_system_replication", "get_all_replication"} -> {"replication"}
      [] op \in FirstSplitOps -> {"pool", "pool_health"}

\* <<system, entity, attribute>> for every entry of the response
Shown ==
    IF resp.op \in ViewOps
    THEN UNION {{<<resp.system_id, resp.body[i].entity_id, a>> :
                    a \in DOMAIN resp.body[i].metrics} : i \in 1..Len(resp.body)}
    ELSE UNION {UNION {{<<resp.body[i].system_id, resp.body[i].entities[j].entity_id, a>> :
                          a \in DOMAIN resp.body[i].entities[j].attributes} :
                       j \in 1..Len(resp.body[i].entities)} :
                i \in 1..Len(resp.body)}

SourceRows ==
    IF resp.op \in ViewOps
    THEN SelectSystemKind(metrics, resp.system_id, OpKinds(resp.op), now, resp.hours)
    ELSE SelectFleetKind(metrics, systems, OpKinds(resp.op), now)

HasUnderscore(name) == \E i \in 1..Len(name) : name[i] = "_"

\* the text before and the text after the last underscore of a name
AroundLast(name) ==
    LET i == CHOOSE k \in 1..Len(name) :
                 name[k] = "_" /\ \A j \in (k + 1)..Len(name) : name[j] # "_"
    IN  <<[k \in 1..(i - 1) |-> name[k]], [k \in 1..(Len(name) - i) |-> name[i + k]]>>

\* the text before and the text after the first underscore of a name
AroundFirst(name) ==
    LET i == CHOOSE k \in 1..Len(name) :
                 name[k] = "_" /\ \A j \in 1..(k - 1) : name[j] # "_"
    IN  <<[k \in 1..(i - 1) |-> name[k]], [k \in 1..(Len(name) - i) |-> name[i + k]]>>

C17_SplitAtFirstUnderscore ==
    /\ DecodeFirst(Join(<<"p">>, WScrubLast)) = <<<<"p">>, WScrubLast>>
    /\ resp.op \in FirstSplitOps =>
          \A m \in SourceRows :
              HasUnderscore(m.metric_name) =>
                  <<m.system_id, AroundFirst(m.metric_name)[1],
                    AroundFirst(m.metric_name)[2]>> \in Shown

C17_Witness ==
    /\ resp.op = "get_all_pools"
    /\ <<"s1", WX, Join(<<"a">>, <<"b">>)>> \in Shown
    /\ <<"s1", <<>>, WX>> \in Shown

\* the pair a raw name stands for, by kind of view
PairOf(op, name) ==
    IF ~HasUnderscore(name) THEN <<name, WValue>>
    ELSE IF op \in FirstSplitOps THEN AroundFirst(name) ELSE AroundLast(name)

SystemRowIs(row, info, t) ==
    /\ row.id = info.id
    /\ row.name = info.name
    /\ row.hostname = info.hostname
    /\ row.version = info.version
    /\ row.client_name = info.client_name
    /\ row.last_seen = t

LastSeenNeverDecreases ==
    \A sy \in DOMAIN systems :
        /\ sy \in DOMAIN systems'
        /\ systems'[sy].last_seen >= systems[sy].last_seen

Committed(w) ==
    /\ ingest[w].pc = "commit"
    /\ ingest'[w].pc = "idle"
    /\ resp'.code = 200

(***************************************************************************)
(* C19: a successful ingest for system S leaves the row of S with the      *)
(* name, hostname, version and client_name of its payload and with the     *)
(* time of this ingest as last_seen, and leaves the rows of other systems  *)
(* as they were; the last_seen of a system never decreases.                *)
(***************************************************************************)
C19_UpsertAdvancesLastSeen ==
    [][/\ \A w \in Workers :
            Committed(w) =>
                /\ ingest[w].payload.system.id \in DOMAIN systems'
                /\ SystemRowIs(systems'[ingest[w].payload.system.id],
                               ingest[w].payload.system, ingest[w].seen)
                /\ \A sy \in DOMAIN systems \ {ingest[w].payload.system.id} :
                      sy \in DOMAIN systems' /\ systems'[sy] = systems[sy]
       /\ LastSeenNeverDecreases]_vars

\* all of C19 except that last_seen never decreases
C19_RowIsThePayload ==
    [][\A w \in Workers :
            Committed(w) =>
                /\ ingest[w].payload.system.id \in DOMAIN systems'
                /\ SystemRowIs(systems'[ingest[w].payload.system.id],
                               ingest[w].payload.system, ingest[w].seen)
                /\ \A sy \in DOMAIN systems \ {ingest[w].payload.system.id} :
                      sy \in DOMAIN systems' /\ systems'[sy] = systems[sy]]_vars

\* C19 for requests handled one at a time
C19_InTurn ==
    [][/\ resp'.op = "receive_metrics" =>
            \E p \in SystemPayloads :
                /\ p.system.id \in DOMAIN systems'
                /\ SystemRowIs(systems'[p.system.id], p.system, now)
                /\ \A sy \in DOMAIN systems \ {p.system.id} :
                      sy \in DOMAIN systems' /\ systems'[sy] = systems[sy]
       /\ LastSeenNeverDecreases]_vars

(***************************************************************************)
(* C21: in the replication summary a task with a status point equal to 0   *)
(* within the last 24 hours is counted in failed_tasks, a task whose       *)
(* last_run value is 30 hours old is counted in stale_tasks, a task that   *)
(* satisfies both is counted in both, and healthy_tasks is                 *)
(* max(0, total_tasks - failed_tasks - stale_tasks).                       *)
(***************************************************************************)
ThirtyHours == 30 * SecondsPerHour

HasTail(name, word) ==
    /\ Len(name) > Len(word)
    /\ SubSeq(name, Len(name) - Len(word), Len(name)) = <<Underscore>> \o word

TaskOf(m, word) == <<m.system_id, SubSeq(m.metric_name, 1, Len(m.metric_name) - Len(word) - 1)>>

TaskPoints(word) ==
    {m \in Rows(metrics) : m.metric_type = "replication" /\ HasTail(m.metric_name, word)}

FailedInDay ==
    {TaskOf(m, WStatus) : m \in {r \in TaskPoints(WStatus) :
                                    r.value = 0 /\ r.timestamp > now - 24 * SecondsPerHour}}

RunThirtyHoursOld ==
    {k \in {TaskOf(m, WLastRun) : m \in TaskPoints(WLastRun)} :
        \A m \in TaskPoints(WLastRun) :
            TaskOf(m, WLastRun) = k => m.value <= now - ThirtyHours}

C21_FailedAndStaleAreCounted ==
    resp.op = "get_replication_summary" =>
        /\ resp.body.failed_tasks >= Cardinality(FailedInDay)
        /\ resp.body.stale_tasks >= Cardinality(RunThirtyHoursOld)
        /\ (FailedInDay \cap RunThirtyHoursOld # {}
              => resp.body.failed_tasks >= 1 /\ resp.body.stale_tasks >= 1)
        /\ resp.body.healthy_tasks =
              MaxOf({0, resp.body.total_tasks - resp.body.failed_tasks
                          - resp.body.stale_tasks})

C21_Witness ==
    /\ resp.op = "get_replication_summary"
    /\ now = 108000
    /\ FailedInDay \cap RunThirtyHoursOld # {}
    /\ resp.body.total_tasks = 1
    /\ resp.body.failed_tasks = 1
    /\ resp.body.stale_tasks = 1
    /\ resp.body.healthy_tasks = 0

(***************************************************************************)
(* C22: staleness looks at the latest point only. A replication task is    *)
(* counted in stale_tasks iff the value of its most recent last_run point, *)
(* over the whole log, lies more than 24 hours before the query; a pool is *)
(* counted in needs_scrub iff the value of its most recent scrub_last      *)
(* point lies more than 7 days before the query; an older point has no     *)
(* influence once a newer point exists.                                    *)
(***************************************************************************)
TailPoints(kind, word) ==
    {m \in Rows(metrics) : m.metric_type = kind /\ HasTail(m.metric_name, word)}

MostRecent(kind, word, k) == MaxRow({m \in TailPoints(kind, word) : TaskOf(m, word) = k})

LatestOlderThan(kind, word, hours) ==
    {k \in {TaskOf(m, word) : m \in TailPoints(kind, word)} :
        MostRecent(kind, word, k).value < now - hours * SecondsPerHour}

C22_LatestPointDecides ==
    /\ resp.op = "get_replication_summary" =>
          resp.body.stale_tasks = Cardinality(LatestOlderThan("replication", WLastRun, 24))
    /\ resp.op = "get_pools_summary" =>
          resp.body.needs_scrub = Cardinality(LatestOlderThan("pool_health", WScrubLast, 168))

\* the same, for logs in which no two points of a task or pool share a second
NoTwoInOneSecond(kind, word) ==
    \A m1, m2 \in TailPoints(kind, word) :
        (m1.id # m2.id /\ TaskOf(m1, word) = TaskOf(m2, word)) => m1.timestamp # m2.timestamp

C22_DecidesAcrossSeconds ==
    /\ (resp.op = "get_replication_summary" /\ NoTwoInOneSecond("replication", WLastRun)) =>
          resp.body.stale_tasks = Cardinality(LatestOlderThan("replication", WLastRun, 24))
    /\ (resp.op = "get_pools_summary" /\ NoTwoInOneSecond("pool_health", WScrubLast)) =>
          resp.body.needs_scrub = Cardinality(LatestOlderThan("pool_health", WScrubLast, 168))

(***************************************************************************)
(* C23: a pool is counted in capacity_warnings iff it has a 'used' point   *)
(* of kind pool within the last hour and its latest 'used' value divided   *)
(* by its latest 'total' value is greater than 0.8, the two latest values  *)
(* chosen independently; used 5200 of total 8000 is not counted, and a     *)
(* latest total that is 0 or missing gives no error.                       *)
(***************************************************************************)
PoolPoints(attribute) ==
    {m \in Rows(metrics) : m.metric_type = "pool" /\ DecodeFirst(m.metric_name)[2] = attribute}

PoolOf(m) == <<m.system_id, DecodeFirst(m.metric_name)[1]>>

LatestOfPool(attribute, k) == MaxRow({m \in PoolPoints(attribute) : PoolOf(m) = k})

OverEightTenths(k) ==
    /\ \E m \in PoolPoints(WTotal) : PoolOf(m) = k
    /\ LatestOfPool(WTotal, k).value # 0
    /\ 10 * LatestOfPool(WUsed, k).value > 8 * LatestOfPool(WTotal, k).value

PoolsOverCapacity ==
    {k \in {PoolOf(m) : m \in {r \in PoolPoints(WUsed) : r.timestamp > now - SecondsPerHour}} :
        OverEightTenths(k)}

C23_CapacityWarningRule ==
    resp.op = "get_pools_summary" =>
        resp.body.capacity_warnings = Cardinality(PoolsOverCapacity)

\* the same, for logs in which no two points of one name share a second
OnePointPerSecond ==
    \A m1, m2 \in Rows(metrics) :
        (m1.id # m2.id /\ m1.system_id = m2.system_id /\ m1.metric_name = m2.metric_name)
            => m1.timestamp # m2.timestamp

C23_RuleAcrossSeconds ==
    (resp.op = "get_pools_summary" /\ OnePointPerSecond) =>
        resp.body.capacity_warnings = Cardinality(PoolsOverCapacity)

\* the parts of the claim about a pool whose points are 'used' and 'total' only
OnlyUsedAndTotal ==
    \A m \in Rows(metrics) : DecodeFirst(m.metric_name)[2] \in {WUsed, WTotal}

C23_UsedAndTotalOnly ==
    (resp.op = "get_pools_summary" /\ OnePointPerSecond /\ OnlyUsedAndTotal) =>
        resp.body.capacity_warnings = Cardinality(PoolsOverCapacity)

(***************************************************************************)
(* C24: a metric whose resource kind is none of pool, pool_health, disk    *)
(* and replication is accepted and stored, and storing any number of such  *)
(* rows, whatever their system id, raw name, value and timestamp, leaves   *)
(* every counter and call-out of the disk, pool and replication summaries  *)
(* unchanged.                                                              *)
(***************************************************************************)
KnownKinds == {"pool", "pool_health", "disk", "replication"}

\* the counters and call-outs the three summaries compute from a log
DiskFigures(table, t) ==
    <<TotalDisks(table, t), TempOver(table, t, TempWarning), TempOver(table, t, TempCritical),
      SmartFailures(table, t), AvgTemperature(table), HottestDisk(table, t)>>

ReplicationFigures(table, t) ==
    <<TotalTasks(table, t), FailedTasks(table, t), StaleTasks(table, t),
      LastSuccess(table, t), OldestStale(table, t)>>

PoolFigures(table, t) ==
    <<TotalPools(table, t), DegradedPools(table, t), NeedsScrub(table, t),
      ActiveResilvers(table, t), CapacityWarnings(table, t),
      CapacityTb(table, WTotal), CapacityTb(table, WUsed)>>

StoresOnlyUnknownKinds ==
    /\ Len(metrics') > Len(metrics)
    /\ SubSeq(metrics', 1, Len(metrics)) = metrics
    /\ \A i \in Len(metrics) + 1..Len(metrics') : metrics'[i].metric_type \notin KnownKinds

C24_UnknownKindsChangeNoSummary ==
    [][StoresOnlyUnknownKinds =>
          /\ resp'.op = "receive_metrics" /\ resp'.status = "ok"
          /\ DiskFigures(metrics', now') = DiskFigures(metrics, now)
          /\ ReplicationFigures(metrics', now') = ReplicationFigures(metrics, now)
          /\ PoolFigures(metrics', now') = PoolFigures(metrics, now)]_vars

\* the same for rows of another kind whose names no row of a known kind has
NamesOfKnownKinds ==
    {<<m.system_id, m.metric_name>> : m \in {r \in Rows(metrics) : r.metric_type \in KnownKinds}}

C24_UnknownKindsWithOwnNames ==
    [][(/\ StoresOnlyUnknownKinds
        /\ \A i \in Len(metrics) + 1..Len(metrics') :
              <<metrics'[i].system_id, metrics'[i].metric_name>> \notin NamesOfKnownKinds)
          => /\ resp'.op = "receive_metrics" /\ resp'.status = "ok"
             /\ DiskFigures(metrics', now') = DiskFigures(metrics, now)
             /\ ReplicationFigures(metrics', now') = ReplicationFigures(metrics, now)
             /\ PoolFigures(metrics', now') = PoolFigures(metrics, now)]_vars

(***************************************************************************)
(* C25: every threshold rule of the summaries is evaluated on the latest   *)
(* value. A disk is a temperature warning (critical) iff its most recent   *)
(* temperature point within the last hour is above 45 (55), a SMART        *)
(* failure iff its most recent smart_status point within 24 hours is 0; a  *)
(* task is failed iff its most recent status point within 24 hours is 0; a *)
(* pool is degraded iff its most recent state point within 24 hours is 0   *)
(* and resilvering iff its most recent resilver_status point within one    *)
(* hour is 1. An entity whose latest value in the window no longer meets   *)
(* the threshold is not counted.                                           *)
(***************************************************************************)
RecentPoints(kind, word, hours) ==
    {m \in TailPoints(kind, word) : m.timestamp > now - hours * SecondsPerHour}

\* the most recent point in the window of every entity that has one
LatestInWindow(kind, word, hours) ==
    {MaxRow({m \in RecentPoints(kind, word, hours) : TaskOf(m, word) = k}) :
        k \in {TaskOf(m, word) : m \in RecentPoints(kind, word, hours)}}

C25_RulesReadLatestValue ==
    /\ resp.op = "get_disks_summary" =>
          /\ resp.body.warnings =
                Cardinality({m \in LatestInWindow("disk", WTemperature, 1) : m.value > 45})
          /\ resp.body.critical - resp.body.smart_failures =
                Cardinality({m \in LatestInWindow("disk", WTemperature, 1) : m.value > 55})
          /\ resp.body.smart_failures =
                Cardinality({m \in LatestInWindow("disk", WSmartStatus, 24) : m.value = 0})
    /\ resp.op = "get_replication_summary" =>
          resp.body.failed_tasks =
              Cardinality({m \in LatestInWindow("replication", WStatus, 24) : m.value = 0})
    /\ resp.op = "get_pools_summary" =>
          /\ resp.body.degraded_pools =
                Cardinality({m \in LatestInWindow("pool_health", WState, 24) : m.value = 0})
          /\ resp.body.active_resilvers =
                Cardinality({m \in LatestInWindow("pool_health", WResilverStatus, 1) :
                                m.value = 1})

\* what the counters are: the entities with some point in the window that
\* meets the threshold
C25_RulesReadAnyPoint ==
    /\ resp.op = "get_disks_summary" =>
          /\ resp.body.warnings = Cardinality({TaskOf(m, WTemperature) :
                m \in {r \in RecentPoints("disk", WTemperature, 1) : r.value > 45}})
          /\ resp.body.smart_failures = Cardinality({TaskOf(m, WSmartStatus) :
                m \in {r \in RecentPoints("disk", WSmartStatus, 24) : r.value = 0}})
    /\ resp.op = "get_replication_summary" =>
          resp.body.failed_tasks = Cardinality({TaskOf(m, WStatus) :
              m \in {r \in RecentPoints("replication", WStatus, 24) : r.value = 0}})
    /\ resp.op = "get_pools_summary" =>
          /\ resp.body.degraded_pools = Cardinality({TaskOf(m, WState) :
                m \in {r \in RecentPoints("pool_health", WState, 24) : r.value = 0}})
          /\ resp.body.active_resilvers = Cardinality({TaskOf(m, WResilverStatus) :
                m \in {r \in RecentPoints("pool_health", WResilverStatus, 1) : r.value = 1}})

(***************************************************************************)
(* C26: a summary query is several independent reads with no enclosing     *)
(* read transaction. Every single read sees the log as whole committed     *)
(* batches left it at the moment of the read, so when an ingest commits    *)
(* between two reads the counters of one response come from different log  *)
(* states: there is an interleaving of get_disks_summary with one ingest   *)
(* whose response is neither the summary of the log before the batch nor   *)
(* the summary of the log after it (C26_TornResponse is reached).          *)
(***************************************************************************)
LogAt(i) == SubSeq(metrics, 1, summary.seen[i])

StatementsRun == Len(summary.seen)

DisksBodies(table) ==
    {DisksSummaryBody(TotalDisks(table, now), TempOver(table, now, TempWarning),
                      TempOver(table, now, TempCritical), SmartFailures(table, now),
                      AvgTemperature(table), hottest) : hottest \in HottestDisk(table, now)}

NoPendingRowCommitted ==
    \A w \in Workers :
        ingest[w].pc \in {"metrics", "alerts", "commit"} =>
            /\ Len(ingest[w].tx.metrics) >= Len(metrics)
            /\ SubSeq(ingest[w].tx.metrics, 1, Len(metrics)) = metrics

C26_EachReadSeesCommittedLog ==
    /\ NoPendingRowCommitted
    /\ \A i \in 1..StatementsRun :
          /\ summary.seen[i] <= Len(metrics)
          /\ i > 1 => summary.seen[i - 1] <= summary.seen[i]
    /\ StatementsRun >= 1 => summary.total_disks = TotalDisks(LogAt(1), now)
    /\ StatementsRun >= 2 => summary.temp_warnings = TempOver(LogAt(2), now, TempWarning)
    /\ StatementsRun >= 3 => summary.temp_critical = TempOver(LogAt(3), now, TempCritical)
    /\ StatementsRun >= 4 => summary.smart_failures = SmartFailures(LogAt(4), now)
    /\ StatementsRun >= 5 => summary.avg_temp = AvgTemperature(LogAt(5))
    /\ (StatementsRun = 6 /\ resp.op = "get_disks_summary") =>
          /\ resp.body.hottest_disk \in HottestDisk(LogAt(6), now)
          /\ resp.body = DisksSummaryBody(summary.total_disks, summary.temp_warnings,
                                          summary.temp_critical, summary.smart_failures,
                                          summary.avg_temp, resp.body.hottest_disk)

C26_TornResponse ==
    /\ StatementsRun = 6
    /\ resp.op = "get_disks_summary"
    /\ summary.seen[6] = summary.seen[1] + 1
    /\ resp.body \notin DisksBodies(LogAt(1)) \cup DisksBodies(LogAt(6))

(***************************************************************************)
(* C27: after any sequence of ingests every stored metric row and every    *)
(* stored alert row carries a system_id for which a system row exists, so  *)
(* no stored row is left out by the listings that join the systems table   *)
(* (get_all_disks, get_all_pools, get_all_replication, get_alerts) while   *)
(* the summaries count it.                                                 *)
(***************************************************************************)
C27_EveryRowHasItsSystem ==
    /\ \A m \in Rows(metrics) : m.system_id \in DOMAIN systems
    /\ \A a \in Rows(alerts) : a.system_id \in DOMAIN systems

\* the consequence: what the summary counts, the listing shows
C27_CountedRowsAreListed ==
    /\ resp.op = "get_all_disks" =>
          (TotalDisks(metrics, now) > 0 => FleetEntityCount(resp.body) > 0)
    /\ resp.op = "get_alerts" => Len(resp.body) = Len(alerts)

(***************************************************************************)
(* C28: in the per-system views the last_updated of each entity is the     *)
(* greatest timestamp among all in-window points of that entity, whatever  *)
(* their attribute.                                                        *)
(***************************************************************************)
C28_LastUpdatedIsGreatest ==
    resp.op \in ViewOps =>
        \A i \in 1..Len(resp.body) :
            resp.body[i].last_updated =
                MaxOf({m.timestamp : m \in EntityRows(resp.body[i].entity_id)})

\* what it is: the greatest timestamp among the points of the entity's
\* first raw name in the order of the query
FirstNameRows(entity) ==
    {m \in EntityRows(entity) :
        \A o \in EntityRows(entity) : ~NameLess(o.metric_name, m.metric_name)}

C28_LastUpdatedOfFirstName ==
    resp.op \in ViewOps =>
        \A i \in 1..Len(resp.body) :
            resp.body[i].last_updated =
                MaxOf({m.timestamp : m \in FirstNameRows(resp.body[i].entity_id)})

(***************************************************************************)
(* C29: acknowledge changes nothing but the acknowledged flag of the alert *)
(* it targets; create_ticket changes nothing but ticket_id and             *)
(* acknowledged of the alert it targets; neither changes any other alert,  *)
(* any metric row or any system row; and no operation removes an alert.    *)
(***************************************************************************)
SameBut(old, new, fields) ==
    /\ DOMAIN new = DOMAIN old
    /\ \A f \in DOMAIN old \ fields : new[f] = old[f]

OnlyTargetChanges(alert_id, fields) ==
    /\ Len(alerts') = Len(alerts)
    /\ \A i \in 1..Len(alerts) :
          IF alerts[i].id = alert_id
          THEN SameBut(alerts[i], alerts'[i], fields)
          ELSE alerts'[i] = alerts[i]
    /\ UNCHANGED <<metrics, systems>>

C29_AlertWritesTouchOnlyTheirTarget ==
    [][/\ Len(alerts') >= Len(alerts)
       /\ \A i \in 1..Len(alerts) : alerts'[i].id = alerts[i].id
       /\ resp'.op = "acknowledge_alert" =>
             OnlyTargetChanges(resp'.alert_id, {"acknowledged"})
       /\ resp'.op = "create_ticket" =>
             OnlyTargetChanges(resp'.alert_id, {"ticket_id", "acknowledged"})]_vars

\* a ticket on one of two alerts, beside a stored metric and an alert that
\* nobody has acknowledged
C29_Witness ==
    /\ resp.op = "create_ticket"
    /\ Len(alerts) = 2
    /\ Len(metrics) >= 1
    /\ \E i, j \in 1..2 :
          /\ alerts[i].id = resp.alert_id
          /\ alerts[i].ticket_id # NoTicket
          /\ alerts[i].acknowledged
          /\ j # i
          /\ alerts[j].ticket_id = NoTicket
          /\ ~alerts[j].acknowledged

(***************************************************************************)
(* C30: starting from the seeded administrator, after any sequence and     *)
(* interleaving of user-management requests (create_user, update_user,     *)
(* delete_user) by authenticated administrators, at least one user with    *)
(* role admin and is_active true exists; the self-protection checks are    *)
(* enough even when two administrators act on each other's accounts at the *)
(* same time, each caller authenticated before the other's update.         *)
(***************************************************************************)
ActiveAdmins(table) == {i \in 1..Len(table) : table[i].role = "admin" /\ table[i].is_active}

C30_AnActiveAdminExists == ActiveAdmins(users) # {}

\* a request whose caller is still an active administrator when its body
\* runs leaves an active administrator
CallerStillAdmin(w) ==
    /\ requests[w].pc = "authorized"
    /\ \E i \in ActiveAdmins(users) : users[i].id = requests[w].current_user[1].id

C30_HoldsWhileCallerIsAdmin ==
    [][(/\ ActiveAdmins(users) # {}
        /\ \A w \in Workers : requests'[w] # requests[w] => CallerStillAdmin(w) \/ requests[w].pc = "idle")
          => ActiveAdmins(users') # {}]_vars
====
